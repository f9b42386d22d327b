--------------------------- MODULE ReportsProofs ---------------------------
(***************************************************************************)
(* Proofs about the reports, for every set of readers, requests and codes:  *)
(* what a report shows, though each of its queries is of a moment of its    *)
(* own.  A reader changes nothing, so what PriorityDecisionProofs proves of *)
(* the tables holds here (ReadersOnlyRead); the rest is an invariant of     *)
(* each of the three reports, about what one reader has got so far and the  *)
(* tables of now.                                                          *)
(***************************************************************************)
EXTENDS Reports, PriorityDecisionProofs, FunctionTheorems

(* What a step does to one reader.                                         *)

IsShort(got) == got = [what |-> got.what, got |-> got.got]

IsLong(got) ==
    /\ got = [what |-> got.what, total |-> got.total, query |-> got.query,
              first |-> got.first, entries |-> got.entries, full |-> got.full]
    /\ got.query = [page |-> got.query.page, pageSize |-> got.query.pageSize]

\* The record of each report has its fields.
Shapes ==
    /\ report = [q \in Readers |-> report[q]]
    /\ \A q \in Readers :
          /\ Reading(q, "summary") \/ Reading(q, "list") => IsShort(report[q])
          /\ Reading(q, "count") \/ Reading(q, "find") \/ Reading(q, "page") => IsLong(report[q])

Begins(q, what) == report'[q] = [what |-> what, got |-> << >>]

Queries(q, what, queries, answers) ==
    /\ Reading(q, what)
    /\ DOMAIN report[q].got # DOMAIN answers
    /\ LET name == queries[Cardinality(DOMAIN report[q].got) + 1]
       IN  report'[q] = [what |-> what,
                         got  |-> WithAnswer(report[q].got, name, answers[name])]

Starts(q) ==
    \E size \in Sizes :
        report'[q] = [what |-> "count", total |-> 0,
                      query |-> bindPage([page |-> 1, pageSize |-> size]),
                      first |-> audits, entries |-> {}, full |-> TRUE]

\* The report on the audit log, and how its reader goes on: the total is read, or
\* the page, or it is turned.
Pages(what, total, query, first, entries, full) ==
    [what |-> what, total |-> total, query |-> query, first |-> first,
     entries |-> entries, full |-> full]

Counts(q) ==
    LET got == report[q]
    IN  /\ Reading(q, "count")
        /\ report'[q] = Pages("find", Cardinality(audits), got.query, got.first, got.entries, got.full)

Finds(q) ==
    LET got == report[q]
    IN  /\ Reading(q, "find")
        /\ \E order \in Orderings :
              LET page == Page(order, normalizePage(got.query))
              IN  report'[q] = Pages("page", got.total, got.query, got.first,
                                     got.entries \cup page,
                                     Cardinality(page) = got.query.pageSize)

Turns(q) ==
    LET got  == report[q]
        next == [page |-> got.query.page + 1, pageSize |-> got.query.pageSize]
    IN  /\ Reading(q, "page") /\ got.full
        /\ report'[q] = Pages("count", got.total, next, got.first, got.entries, got.full)

Reads(q) ==
    \/ Begins(q, "summary") \/ Queries(q, "summary", SummarizeAudits, Counted)
    \/ Begins(q, "list") \/ Queries(q, "list", List, Listed)
    \/ Starts(q) \/ Counts(q) \/ Finds(q) \/ Turns(q)

\* How the reader of a page goes on.
LEMMA PageSteps ==
    ASSUME Shapes, NEW q \in Readers, CountAudits(q) \/ FindAudits(q) \/ TurnPage(q)
    PROVE  Counts(q) \/ Finds(q) \/ Turns(q)
<1>1. report = [p \in Readers |-> report[p]] /\ IsLong(report[q])
  BY DEF CountAudits, FindAudits, TurnPage, Shapes
<1>2. PICK w, t, p, n, f, e, l :
          report[q] = Pages(w, t, [page |-> p, pageSize |-> n], f, e, l)
  <2>1. report[q] = Pages(report[q].what, report[q].total,
                          [page |-> report[q].query.page, pageSize |-> report[q].query.pageSize],
                          report[q].first, report[q].entries, report[q].full)
    BY <1>1 DEF IsLong, Pages
  <2>. QED  BY <2>1, Zenon
<1>. DEFINE query == [page |-> p, pageSize |-> n]
            got   == Pages(w, t, query, f, e, l)
            next  == [page |-> p + 1, pageSize |-> n]
<1>3. /\ report[q].what = w /\ report[q].total = t /\ report[q].query = query
      /\ report[q].first = f /\ report[q].entries = e /\ report[q].full = l
      /\ report[q].query.page = p /\ report[q].query.pageSize = n
  BY <1>2 DEF Pages
<1>4. CASE CountAudits(q)
  <2>1. report'[q] = [report[q] EXCEPT !.what = "find", !.total = Cardinality(audits)]
    BY <1>1, <1>4, Zenon DEF CountAudits
  <2>2. [got EXCEPT !.what = "find"] = Pages("find", t, query, f, e, l)
    BY SMT DEF Pages
  <2>3. \A x : [Pages("find", t, query, f, e, l) EXCEPT !.total = x]
                    = Pages("find", x, query, f, e, l)
    BY SMT DEF Pages
  <2>4. report'[q] = Pages("find", Cardinality(audits), query, f, e, l)
    BY <1>2, <2>1, <2>2, <2>3, Zenon
  <2>. QED  BY <1>3, <1>4, <2>4 DEF CountAudits, Counts
<1>5. CASE FindAudits(q)
  <2>0. PICK order \in Orderings :
            LET read == Page(order, normalizePage(query))
            IN  report' = [report EXCEPT ![q].what = "page", ![q].entries = @ \cup read,
                                         ![q].full = Cardinality(read) = n]
    BY <1>3, <1>5, Zenon DEF FindAudits
  <2>. DEFINE read == Page(order, normalizePage(query))
              all == e \cup read
              more == Cardinality(read) = n
  <2>1. report'[q] = [report[q] EXCEPT !.what = "page", !.entries = all, !.full = more]
    BY <1>1, <1>3, <2>0, Zenon
  <2>2. [got EXCEPT !.what = "page"] = Pages("page", t, query, f, e, l)
    BY SMT DEF Pages
  <2>3. \A x : [Pages("page", t, query, f, e, l) EXCEPT !.entries = x]
                    = Pages("page", t, query, f, x, l)
    BY SMT DEF Pages
  <2>4. \A x, y : [Pages("page", t, query, f, x, l) EXCEPT !.full = y]
                       = Pages("page", t, query, f, x, y)
    BY SMT DEF Pages
  <2>. HIDE DEF all, more
  <2>5. /\ [Pages("page", t, query, f, e, l) EXCEPT !.entries = all]
              = Pages("page", t, query, f, all, l)
        /\ [Pages("page", t, query, f, all, l) EXCEPT !.full = more]
              = Pages("page", t, query, f, all, more)
    BY <2>3, <2>4, Zenon
  <2>6. report'[q] = Pages("page", t, query, f, all, more)
    BY <1>2, <2>1, <2>2, <2>5, Zenon
  <2>7. report'[q] = Pages("page", t, query, f, e \cup read, Cardinality(read) = n)
    BY <2>6 DEF all, more
  <2>. HIDE DEF read
  <2>8. \E o \in Orderings :
            report'[q] = Pages("page", t, query, f, e \cup Page(o, normalizePage(query)),
                               Cardinality(Page(o, normalizePage(query))) = n)
    BY <2>7, Zenon DEF read
  <2>. HIDE DEF query
  <2>9. Reading(q, "find")
    BY <1>5 DEF FindAudits
  <2>. QED  BY <1>3, <2>8, <2>9, Zenon DEF Finds
<1>6. CASE TurnPage(q)
  <2>1. report'[q] = [report[q] EXCEPT !.what = "count", !.query = [query EXCEPT !.page = p + 1]]
    BY <1>1, <1>3, <1>6, Zenon DEF TurnPage
  <2>2. [query EXCEPT !.page = p + 1] = next
    OBVIOUS
  <2>3. [got EXCEPT !.what = "count"] = Pages("count", t, query, f, e, l)
    BY SMT DEF Pages
  <2>4. [Pages("count", t, query, f, e, l) EXCEPT !.query = next]
           = Pages("count", t, next, f, e, l)
    BY SMT DEF Pages
  <2>5. report'[q] = Pages("count", t, next, f, e, l)
    BY <1>2, <2>1, <2>2, <2>3, <2>4, Zenon
  <2>. QED  BY <1>3, <1>6, <2>5 DEF TurnPage, Turns
<1>. QED  BY <1>4, <1>5, <1>6

LEMMA FindsPage ==
    ASSUME NEW q \in Readers, Finds(q)
    PROVE  \E entries, full :
               report'[q] = Pages("page", report[q].total, report[q].query, report[q].first,
                                  entries, full)
BY Zenon DEF Finds

\* What is read has the fields of its report.
LEMMA ReadsKeepShape ==
    ASSUME Shapes, NEW q \in Readers, Reads(q)
    PROVE  /\ Reading(q, "summary")' \/ Reading(q, "list")' => IsShort(report[q])'
           /\ Reading(q, "count")' \/ Reading(q, "find")' \/ Reading(q, "page")'
                 => IsLong(report[q])'
<1>1. CASE \E what \in {"summary", "list"} : Begins(q, what)
  BY <1>1 DEF Begins, Reading, IsShort
<1>2. ASSUME NEW what \in {"summary", "list"}, NEW queries, NEW answers,
             Queries(q, what, queries, answers)
      PROVE  IsShort(report[q])' /\ report'[q].what = what
  <2>. DEFINE name == queries[Cardinality(DOMAIN report[q].got) + 1]
              new  == WithAnswer(report[q].got, name, answers[name])
  <2>1. report'[q] = [what |-> what, got |-> new]
    BY <1>2 DEF Queries
  <2>. HIDE DEF new
  <2>. QED  BY <2>1 DEF IsShort
<1>3. CASE Starts(q)
  BY <1>3 DEF Starts, Reading, IsLong, bindPage
<1>4. CASE Counts(q) \/ Finds(q) \/ Turns(q)
  <2>1. IsLong(report[q])
    BY <1>4 DEF Counts, Finds, Turns, Shapes
  <2>2. CASE Counts(q) \/ Turns(q)
    BY <2>1, <2>2 DEF Counts, Turns, IsLong, Reading, Pages
  <2>3. CASE Finds(q)
    <3>1. PICK entries, full :
              report'[q] = Pages("page", report[q].total, report[q].query, report[q].first,
                                 entries, full)
      BY <2>3, FindsPage
    <3>. QED  BY <2>1, <3>1 DEF IsLong, Reading, Pages
  <2>. QED  BY <1>4, <2>2, <2>3
<1>. QED  BY <1>1, <1>2, <1>3, <1>4 DEF Reads, Reading

\* A step is one of the requests, or one reader reads and changes nothing else.
LEMMA ReaderSteps ==
    ASSUME Shapes, [RNext]_rvars
    PROVE  /\ Shapes'
           /\ \/ Served \/ UNCHANGED rvars
              \/ /\ UNCHANGED <<vars, createdAt>>
                 /\ \E q \in Readers : /\ Reads(q)
                                       /\ \A p \in Readers \ {q} : report'[p] = report[p]
<1>1. CASE Served \/ UNCHANGED rvars
  <2>1. UNCHANGED report
    BY <1>1 DEF Served, rvars
  <2>2. Shapes'
    BY <2>1 DEF Shapes, Reading
  <2>. QED  BY <1>1, <2>2
<1>2. ASSUME NEW q \in Readers, Answer(q) \/ TurnPage(q) \/ \E size \in Sizes : Audits(q, size)
      PROVE  /\ UNCHANGED <<vars, createdAt>>
             /\ Reads(q)
             /\ \A p \in Readers \ {q} : report'[p] = report[p]
             /\ Shapes'
  <2>1. UNCHANGED <<vars, createdAt>>
    BY <1>2 DEF Answer, Summarize, ReadList, Begin, NextQuery, CountAudits, FindAudits,
                TurnPage, Audits
  <2>2. \E new : report' = [report EXCEPT ![q] = new]
    BY <1>2 DEF Answer, Summarize, ReadList, Begin, NextQuery, CountAudits, FindAudits,
                TurnPage, Audits
  <2>3. /\ report' = [p \in Readers |-> report'[p]]
        /\ \A p \in Readers \ {q} : report'[p] = report[p]
    BY <2>2 DEF Shapes
  <2>4. Reads(q)
    <3>1. ASSUME NEW what, NEW roles, Begin(q, what, roles)
          PROVE  Begins(q, what)
      BY <3>1 DEF Begin, Begins, Shapes
    <3>2. ASSUME NEW what \in {"summary", "list"}, NEW queries, NEW answers,
                 NextQuery(q, what, queries, answers)
          PROVE  Queries(q, what, queries, answers)
      <4>1. report[q] = [what |-> what, got |-> report[q].got]
        BY <3>2 DEF NextQuery, Reading, Shapes, IsShort
      <4>. DEFINE name == queries[Cardinality(DOMAIN report[q].got) + 1]
                  new  == WithAnswer(report[q].got, name, answers[name])
      <4>2. report' = [report EXCEPT ![q].got = new]
        BY <3>2 DEF NextQuery
      <4>. HIDE DEF new
      <4>3. report'[q] = [what |-> what, got |-> new]
        BY <4>1, <4>2 DEF Shapes
      <4>. QED  BY <3>2, <4>3 DEF Queries, NextQuery, new
    <3>3. CASE CountAudits(q) \/ FindAudits(q) \/ TurnPage(q)
      BY <3>3, PageSteps DEF Reads
    <3>4. ASSUME NEW size \in Sizes, Audits(q, size)
          PROVE  Starts(q)
      BY <3>4 DEF Audits, Starts, Shapes
    <3>5. CASE Summarize(q) \/ ReadList(q)
      BY <3>1, <3>2, <3>5 DEF Summarize, ReadList, Reads
    <3>. QED  BY <1>2, <3>3, <3>4, <3>5 DEF Answer, Reads
  <2>5. /\ Reading(q, "summary")' \/ Reading(q, "list")' => IsShort(report[q])'
        /\ Reading(q, "count")' \/ Reading(q, "find")' \/ Reading(q, "page")'
              => IsLong(report[q])'
    BY <2>4, ReadsKeepShape
  <2>6. Shapes'
    <3>1. \A p \in Readers \ {q} :
             /\ Reading(p, "summary")' \/ Reading(p, "list")' => IsShort(report[p])'
             /\ Reading(p, "count")' \/ Reading(p, "find")' \/ Reading(p, "page")'
                   => IsLong(report[p])'
      BY <2>3 DEF Shapes, Reading, IsShort, IsLong
    <3>. QED  BY <2>3, <2>5, <3>1 DEF Shapes
  <2>. QED  BY <2>1, <2>3, <2>4, <2>6
<1>. QED  BY <1>1, <1>2 DEF RNext

-----------------------------------------------------------------------------
(* The tables under the readers.                                           *)

\* Readers change nothing: a run with readers is a run of the decisions.
THEOREM ReadersOnlyRead == RSpec => Spec
<1>1. RInit => Init
  BY DEF RInit
<1>2. [RNext]_rvars => [Next]_vars
  BY DEF RNext, rvars, Served, Answer, Summarize, ReadList, Begin, NextQuery, CountAudits,
         FindAudits, TurnPage, Audits
<1>. QED  BY <1>1, <1>2, PTL DEF RSpec, Spec

LEMMA ShapesInit == RInit => Shapes
BY DEF RInit, Shapes, Reading

LEMMA Invariants == RSpec => [](IInv /\ Shapes)
<1>1. RSpec => []IInv
  BY ReadersOnlyRead, Invariance, PTL
<1>2. Shapes /\ [RNext]_rvars => Shapes'
  BY ReaderSteps
<1>. QED  BY <1>1, <1>2, ShapesInit, PTL DEF RSpec

\* Who reads one kind of report next had begun it, or reads no other.
LEMMA ReadsOne ==
    ASSUME NEW q \in Readers, Reads(q)
    PROVE  /\ \/ Begins(q, "list") \/ Queries(q, "list", List, Listed)
              \/ ~Reading(q, "list")'
           /\ \/ Begins(q, "summary") \/ Queries(q, "summary", SummarizeAudits, Counted)
              \/ ~Reading(q, "summary")'
           /\ \/ Starts(q) \/ Counts(q) \/ Finds(q) \/ Turns(q)
              \/ /\ ~Reading(q, "count")' /\ ~Reading(q, "find")'
                 /\ ~Reading(q, "page")'
<1>1. CASE Begins(q, "summary") \/ Queries(q, "summary", SummarizeAudits, Counted)
  BY <1>1 DEF Begins, Queries, Reading
<1>2. CASE Begins(q, "list") \/ Queries(q, "list", List, Listed)
  BY <1>2 DEF Begins, Queries, Reading
<1>3. CASE Starts(q)
  <2>1. PICK size \in Sizes :
            report'[q] = [what |-> "count", total |-> 0,
                          query |-> bindPage([page |-> 1, pageSize |-> size]),
                          first |-> audits, entries |-> {}, full |-> TRUE]
    BY <1>3 DEF Starts
  <2>2. report'[q].what = "count"
    BY <2>1
  <2>. QED  BY <1>3, <2>2 DEF Reading
<1>4. CASE Counts(q)
  BY <1>4 DEF Counts, Pages, Reading
<1>5. CASE Finds(q)
  <2>1. PICK entries, full :
            report'[q] = Pages("page", report[q].total, report[q].query, report[q].first,
                               entries, full)
    BY <1>5, FindsPage
  <2>. QED  BY <1>5, <2>1 DEF Pages, Reading
<1>6. CASE Turns(q)
  BY <1>6 DEF Turns, Pages, Reading
<1>. QED  BY <1>1, <1>2, <1>3, <1>4, <1>5, <1>6 DEF Reads

-----------------------------------------------------------------------------
(* The list.                                                               *)

\* A row that was read is one its code has had: the table is no older, and the
\* revision of its version says what it says.
WasRow(c, row) ==
    /\ c \in Codes /\ rows[c] # None
    /\ row.version \in Nat /\ row.version <= rows[c].version
    /\ \A v \in revisions : v.code = c /\ v.version = row.version =>
           v.status = row.status /\ v.content = row.content

\* What the property says of one row of a list and the revisions that came with it.
Covered(c, row, listed) ==
    LET mine == {v \in listed : v.code = c}
    IN  /\ 1 .. row.version \subseteq {v.version : v \in mine}
        /\ \A v \in mine : v.version = row.version =>
               v.status = row.status /\ v.content = row.content
        /\ \A v \in mine : v.version > row.version =>
               v.version \in Nat /\ rows[c].version > row.version

ListHolds(q) == Reading(q, "list") =>
    LET got == report[q].got
    IN  /\ DOMAIN got \in {{}, {"total"}, {"total", "rows"}, {"total", "rows", "revisions"}}
        /\ "rows" \in DOMAIN got => \A c \in DOMAIN got.rows : WasRow(c, got.rows[c])
        /\ "revisions" \in DOMAIN got =>
               \A c \in DOMAIN got.rows : Covered(c, got.rows[c], got.revisions)

ListsHold == \A q \in Readers : ListHolds(q)

\* What was read stays true as the tables grow.
LEMMA RowsStay ==
    ASSUME IInv, [Next]_vars
    PROVE  /\ \A c, row : WasRow(c, row) => WasRow(c, row)'
           /\ \A c, row, listed : WasRow(c, row) /\ Covered(c, row, listed)
                                       => Covered(c, row, listed)'
<1>0. TypeOK /\ RevisionChain /\ HistoryStep
  BY HistoryStepHolds DEF IInv
<1>1. \A c \in Codes : rows[c] # None =>
          /\ rows'[c] # None
          /\ rows[c].version \in Nat /\ rows'[c].version \in Nat
          /\ rows[c].version <= rows'[c].version
  BY TablesGrow
<1>2. ASSUME NEW c, NEW row, WasRow(c, row)
      PROVE  WasRow(c, row)'
  <2>1. ASSUME NEW v \in revisions' \ revisions, v.code = c
        PROVE  v.version > row.version
    <3>. DEFINE added == {w \in revisions' \ revisions : w.code = c}
    <3>1. c \in Codes /\ rows[c] # None /\ rows'[c] # rows[c] /\ v \in added
      BY <1>0, <1>2, <2>1 DEF WasRow, HistoryStep
    <3>2. /\ rows'[c].version = rows[c].version + 1
          /\ \E w \in added : added = {w} /\ w.version = rows'[c].version
      BY <1>0, <3>1 DEF HistoryStep
    <3>3. v.version = rows[c].version + 1
      BY <3>1, <3>2
    <3>. QED  BY <1>1, <1>2, <3>1, <3>3 DEF WasRow
  <2>2. \A v \in revisions' : v.code = c /\ v.version = row.version => v \in revisions
    BY <1>2, <2>1 DEF WasRow
  <2>. QED  BY <1>1, <1>2, <2>2 DEF WasRow
<1>3. ASSUME NEW c, NEW row, NEW listed, WasRow(c, row), Covered(c, row, listed)
      PROVE  Covered(c, row, listed)'
  BY <1>1, <1>3 DEF WasRow, Covered
<1>. QED  BY <1>2, <1>3

\* What the two queries read.
LEMMA RowsRead ==
    ASSUME IInv
    PROVE  /\ \A c \in LiveCodes : WasRow(c, rows[c])
           /\ \A c, row : WasRow(c, row) => Covered(c, row, revisions)
<1>0. TypeOK /\ RevisionChain
  BY DEF IInv
<1>1. \A c \in Codes : rows[c] # None => rows[c].version \in Nat
  BY <1>0 DEF TypeOK, Row
<1>2. ASSUME NEW c \in LiveCodes
      PROVE  WasRow(c, rows[c])
  BY <1>0, <1>1 DEF WasRow, LiveCodes, Live, RevisionChain
<1>3. ASSUME NEW c, NEW row, WasRow(c, row)
      PROVE  Covered(c, row, revisions)
  <2>1. \A v \in revisions : v.version \in Nat
    BY <1>0 DEF TypeOK, Revision
  <2>2. \A v \in revisions : v.code = c => v.version <= rows[c].version
    BY <1>0 DEF RevisionChain
  <2>3. \A n \in 1 .. row.version : \E v \in revisions : v.code = c /\ v.version = n
    BY <1>0, <1>1, <1>3 DEF RevisionChain, WasRow
  <2>. QED  BY <1>1, <1>3, <2>1, <2>2, <2>3 DEF Covered, WasRow
<1>. QED  BY <1>2, <1>3

\* The names of the answers got so far are a prefix of the queries.
LEMMA ListedInTurn ==
    ASSUME NEW got, DOMAIN got # DOMAIN Listed,
           DOMAIN got \in {{}, {"total"}, {"total", "rows"}, {"total", "rows", "revisions"}}
    PROVE  \/ DOMAIN got = {} /\ List[Cardinality(DOMAIN got) + 1] = "total"
           \/ DOMAIN got = {"total"} /\ List[Cardinality(DOMAIN got) + 1] = "rows"
           \/ DOMAIN got = {"total", "rows"} /\ List[Cardinality(DOMAIN got) + 1] = "revisions"
<1>1. DOMAIN Listed = {"total", "rows", "revisions"}
  BY DEF Listed
<1>2. Cardinality({}) = 0 /\ Cardinality({"total"}) = 1
  BY FS_EmptySet, FS_Singleton
<1>3. Cardinality({"total", "rows"}) = 2
  <2>1. /\ IsFiniteSet({"total"}) /\ "rows" \notin {"total"}
        /\ {"total", "rows"} = {"total"} \cup {"rows"}
    BY FS_Singleton
  <2>2. Cardinality({"total"} \cup {"rows"}) = Cardinality({"total"}) + 1
    BY <2>1, FS_AddElement
  <2>. QED  BY <1>2, <2>1, <2>2
<1>. QED  BY <1>1, <1>2, <1>3 DEF List

LEMMA ListRead ==
    ASSUME IInv, Shapes, ListsHold, UNCHANGED vars, NEW q \in Readers,
           Queries(q, "list", List, Listed)
    PROVE  ListHolds(q)'
<1>. DEFINE got  == report[q].got
            name == List[Cardinality(DOMAIN got) + 1]
            next == WithAnswer(got, name, Listed[name])
<1>1. ListHolds(q) /\ Reading(q, "list") /\ DOMAIN got # DOMAIN Listed
  BY DEF ListsHold, Queries
<1>2. report'[q] = [what |-> "list", got |-> next]
  BY DEF Queries
<1>3. \/ DOMAIN got = {} /\ name = "total"
      \/ DOMAIN got = {"total"} /\ name = "rows"
      \/ DOMAIN got = {"total", "rows"} /\ name = "revisions"
  BY <1>1, ListedInTurn DEF ListHolds
<1>4. /\ \A c, row : WasRow(c, row)' <=> WasRow(c, row)
      /\ \A c, row, listed : Covered(c, row, listed)' <=> Covered(c, row, listed)
  BY DEF WasRow, Covered, vars
<1>5. /\ DOMAIN next = DOMAIN got \cup {name}
      /\ \A n \in DOMAIN next : next[n] = IF n = name THEN Listed[name] ELSE got[n]
  BY DEF WithAnswer
<1>. HIDE DEF got, name, next
<1>6. report'[q].got = next
  BY <1>2
<1>7. CASE name = "total"
  BY <1>3, <1>5, <1>6, <1>7 DEF ListHolds
<1>8. CASE name = "rows"
  <2>1. DOMAIN next = {"total", "rows"} /\ next.rows = [c \in LiveCodes |-> rows[c]]
    BY <1>3, <1>5, <1>8 DEF Listed
  <2>2. \A c \in DOMAIN next.rows : WasRow(c, next.rows[c])
    BY <2>1, RowsRead
  <2>. QED  BY <1>4, <1>6, <2>1, <2>2 DEF ListHolds
<1>9. CASE name = "revisions"
  <2>1. DOMAIN next = {"total", "rows", "revisions"} /\ next.rows = got.rows
           /\ next.revisions = revisions
    BY <1>3, <1>5, <1>9 DEF Listed
  <2>2. \A c \in DOMAIN next.rows : WasRow(c, next.rows[c])
    BY <1>1, <1>3, <1>9, <2>1 DEF ListHolds, got
  <2>3. \A c \in DOMAIN next.rows : Covered(c, next.rows[c], revisions)
    BY <2>2, RowsRead
  <2>. QED  BY <1>4, <1>6, <2>1, <2>2, <2>3 DEF ListHolds
<1>. QED  BY <1>3, <1>7, <1>8, <1>9

\* A reader who is not reading a list now has just begun, or will not read one.
LEMMA ListStep ==
    ASSUME IInv, Shapes, ListsHold, [RNext]_rvars
    PROVE  ListsHold'
<1>1. CASE Served \/ UNCHANGED rvars
  <2>1. [Next]_vars /\ UNCHANGED report
    BY <1>1 DEF Served, rvars
  <2>2. ASSUME NEW q \in Readers, Reading(q, "list")'
        PROVE  ListHolds(q)'
    <3>. DEFINE got == report[q].got
    <3>1. ListHolds(q) /\ Reading(q, "list") /\ report'[q].got = got
      BY <2>1, <2>2 DEF ListsHold, Reading
    <3>. HIDE DEF got
    <3>2. "rows" \in DOMAIN got => \A c \in DOMAIN got.rows : WasRow(c, got.rows[c])'
      BY <2>1, <3>1, RowsStay DEF ListHolds, got
    <3>3. "revisions" \in DOMAIN got =>
              \A c \in DOMAIN got.rows : Covered(c, got.rows[c], got.revisions)'
      BY <2>1, <3>1, RowsStay DEF ListHolds, got
    <3>. QED  BY <3>1, <3>2, <3>3 DEF ListHolds, got
  <2>. QED  BY <2>2 DEF ListsHold, ListHolds
<1>2. ASSUME UNCHANGED <<vars, createdAt>>, NEW q \in Readers, Reads(q),
             \A p \in Readers \ {q} : report'[p] = report[p]
      PROVE  ListsHold'
  <2>1. /\ \A c, row : WasRow(c, row)' <=> WasRow(c, row)
        /\ \A c, row, listed : Covered(c, row, listed)' <=> Covered(c, row, listed)
    BY <1>2 DEF WasRow, Covered, vars
  <2>2. \A p \in Readers \ {q} : ListHolds(p)'
    BY <1>2, <2>1 DEF ListsHold, ListHolds, Reading
  <2>3. ListHolds(q)'
    <3>1. CASE Begins(q, "list")
      <4>1. report'[q].got = << >> /\ DOMAIN << >> = {}
        BY <3>1 DEF Begins
      <4>. QED  BY <4>1 DEF ListHolds
    <3>2. CASE Queries(q, "list", List, Listed)
      <4>1. UNCHANGED vars
        BY <1>2
      <4>. QED  BY <3>2, <4>1, ListRead
    <3>3. CASE ~Reading(q, "list")'
      BY <3>3 DEF ListHolds
    <3>. QED  BY <1>2, <3>1, <3>2, <3>3, ReadsOne
  <2>. QED  BY <2>2, <2>3 DEF ListsHold
<1>. QED  BY <1>1, <1>2, ReaderSteps

\* Every decision of a list comes with the whole history of the version it shows, and
\* the revision of that version says what the row says: the rows are read before their
\* revisions, and neither is ever rewritten (repository/priority_decision.go:59).
THEOREM ListsCoverHistory == RSpec => []ListCoversHistory
<1>1. RInit => ListsHold
  BY DEF RInit, ListsHold, ListHolds, Reading
<1>2. ListsHold => ListCoversHistory
  <2>. SUFFICES ASSUME ListsHold, NEW q \in Readers, Complete(q, "list", Listed)
                PROVE  \A c \in DOMAIN report[q].got.rows :
                           Covered(c, report[q].got.rows[c], report[q].got.revisions)
    BY DEF ListCoversHistory, Covered
  <2>. QED  BY DEF ListsHold, ListHolds, Complete, Listed
<1>. QED  BY <1>1, <1>2, ListStep, Invariants, PTL DEF RSpec

-----------------------------------------------------------------------------
(* The summary.                                                            *)

\* A step appends at most one entry.
LEMMA AuditsGrow ==
    ASSUME IInv, [Next]_vars
    PROVE  /\ audits \subseteq audits'
           /\ IsFiniteSet(audits) => IsFiniteSet(audits')
           /\ audits' = audits \/ \E entry : audits' = audits \cup {entry}
<1>1. audits' = audits \/ \E entry : audits' = audits \cup {entry}
  <2>1. CASE UNCHANGED vars
    BY <2>1 DEF vars
  <2>2. CASE Crash \/ Quiet
    BY <2>2 DEF Crash, Quiet, vars, tables
  <2>3. ASSUME NEW r \in Requests, Arrival(r) \/ CallFails(r) \/ AuditFails(r)
        PROVE  audits' = audits
    BY <2>3 DEF Arrival, CreateArrives, UpdateArrives, TransitionArrives,
                DeleteArrives, GetArrives, Arrive, CallFails, AuditFails, tables
  <2>4. ASSUME NEW r \in Requests, Serve(r)
        PROVE  audits' = audits \/ \E entry : audits' = audits \cup {entry}
    BY <2>4 DEF Serve, CreateCommit, UpdateCommit, TransitionCommit, DeleteCommit,
                UpdateWithRevision, Audit, ReplyRow, ReplyHistory, tables
  <2>. QED  BY <2>1, <2>2, <2>3, <2>4 DEF Next
<1>. QED  BY <1>1, FS_AddElement

LEMMA DisjointUnion ==
    ASSUME NEW S, NEW T, IsFiniteSet(S), IsFiniteSet(T), S \cap T = {}
    PROVE  IsFiniteSet(S \cup T) /\ Cardinality(S \cup T) = Cardinality(S) + Cardinality(T)
<1>1. Cardinality(S) \in Nat /\ Cardinality(T) \in Nat /\ Cardinality(S \cap T) = 0
  BY FS_CardinalityType, FS_EmptySet
<1>2. /\ IsFiniteSet(S \cup T)
      /\ Cardinality(S \cup T) = Cardinality(S) + Cardinality(T) - Cardinality(S \cap T)
  BY FS_Union
<1>. QED  BY <1>1, <1>2

\* Every entry is counted in the group of its action, and in no other.
LEMMA EntriesAddUp ==
    ASSUME audits \subseteq AuditEntry, IsFiniteSet(audits)
    PROVE  /\ Cardinality(audits) \in Nat
           /\ \A action \in AllOps : Entries(action) \in Nat
           /\ Entries("create") + Entries("update") + Entries("transition")
                 + Entries("delete") + Entries("get") = Cardinality(audits)
<1>. DEFINE Of(action) == {a \in audits : a.action = action}
<1>1. \A action : IsFiniteSet(Of(action)) /\ Entries(action) = Cardinality(Of(action))
  BY FS_Subset DEF Entries
<1>2. \A action : Entries(action) \in Nat
  BY <1>1, FS_CardinalityType
<1>3. Cardinality(audits) \in Nat
  BY FS_CardinalityType
<1>4. \A a \in audits : a.action \in {"create", "update", "transition", "delete", "get"}
  BY DEF AuditEntry, AllOps
<1>. DEFINE A2 == Of("create") \cup Of("update")
            A3 == A2 \cup Of("transition")
            A4 == A3 \cup Of("delete")
<1>5. audits = A4 \cup Of("get")
  BY <1>4
<1>6. /\ Of("create") \cap Of("update") = {} /\ A2 \cap Of("transition") = {}
      /\ A3 \cap Of("delete") = {} /\ A4 \cap Of("get") = {}
  OBVIOUS
<1>. HIDE DEF Of
<1>7. IsFiniteSet(A2) /\ Cardinality(A2) = Entries("create") + Entries("update")
  BY <1>1, <1>6, DisjointUnion
<1>. HIDE DEF A2
<1>8. IsFiniteSet(A3) /\ Cardinality(A3) = Cardinality(A2) + Entries("transition")
  BY <1>1, <1>6, <1>7, DisjointUnion
<1>. HIDE DEF A3
<1>9. IsFiniteSet(A4) /\ Cardinality(A4) = Cardinality(A3) + Entries("delete")
  BY <1>1, <1>6, <1>8, DisjointUnion
<1>. HIDE DEF A4
<1>10. Cardinality(audits) = Cardinality(A4) + Entries("get")
  BY <1>1, <1>5, <1>6, <1>9, DisjointUnion
<1>. QED  BY <1>2, <1>3, <1>7, <1>8, <1>9, <1>10

\* No more callers than entries.
LEMMA ActorsAreFewer ==
    ASSUME IsFiniteSet(audits)
    PROVE  /\ Counted.uniqueActors \in Nat
           /\ Counted.uniqueActors <= Cardinality(audits)
<1>. DEFINE actors == {a.actor : a \in audits}
            f == [a \in audits |-> a.actor]
<1>1. f \in Surjection(audits, actors)
  BY DEF Surjection
<1>2. IsFiniteSet(actors) /\ Cardinality(actors) <= Cardinality(audits)
  BY <1>1, FS_Surjection
<1>3. Cardinality(actors) \in Nat
  BY <1>2, FS_CardinalityType
<1>. QED  BY <1>2, <1>3 DEF Counted

GroupTotal(actions) ==
    actions["create"] + actions["update"] + actions["transition"]
        + actions["delete"] + actions["get"]

SummaryPrefixes ==
    {{}, {"total"}, {"total", "transitions"}, {"total", "transitions", "uniqueActors"},
     {"total", "transitions", "uniqueActors", "actions"},
     {"total", "transitions", "uniqueActors", "actions", "entityTypes"}}

\* A number that was read is not more than the entries of now that it counts, until
\* the groups are read: then it is not more than theirs.
NumbersHold(got) ==
    /\ DOMAIN got \in SummaryPrefixes
    /\ "total" \in DOMAIN got =>
           got.total \in Nat /\ got.total <= Cardinality(audits)
    /\ "transitions" \in DOMAIN got =>
           got.transitions \in Nat /\ got.transitions <= Entries("transition")
    /\ "uniqueActors" \in DOMAIN got =>
           got.uniqueActors \in Nat /\ got.uniqueActors <= Cardinality(audits)
    /\ "actions" \in DOMAIN got =>
           /\ GroupTotal(got.actions) \in Nat /\ GroupTotal(got.actions) <= Cardinality(audits)
           /\ got.total <= GroupTotal(got.actions)
           /\ got.transitions <= got.actions["transition"]
           /\ got.uniqueActors <= GroupTotal(got.actions)
    /\ "entityTypes" \in DOMAIN got => GroupTotal(got.actions) <= got.entityTypes

SummariesHold ==
    /\ IsFiniteSet(audits)
    /\ \A q \in Readers : Reading(q, "summary") => NumbersHold(report[q].got)

\* The counts of now only grow.
LEMMA CountsGrow ==
    ASSUME IInv, IsFiniteSet(audits), [Next]_vars
    PROVE  /\ Cardinality(audits) \in Nat /\ Cardinality(audits)' \in Nat
           /\ Cardinality(audits) <= Cardinality(audits)'
           /\ Entries("transition") \in Nat /\ Entries("transition")' \in Nat
           /\ Entries("transition") <= Entries("transition")'
<1>1. audits \subseteq audits' /\ IsFiniteSet(audits')
  BY AuditsGrow
<1>. DEFINE Of(S) == {a \in S : a.action = "transition"}
<1>2. /\ IsFiniteSet(Of(audits')) /\ Of(audits) \in SUBSET Of(audits')
      /\ IsFiniteSet(Of(audits))
  BY <1>1, FS_Subset
<1>. HIDE DEF Of
<1>3. /\ Cardinality(Of(audits)) \in Nat /\ Cardinality(Of(audits')) \in Nat
      /\ Cardinality(Of(audits)) <= Cardinality(Of(audits'))
  BY <1>2, FS_Subset, FS_CardinalityType
<1>4. /\ Cardinality(audits) \in Nat /\ Cardinality(audits') \in Nat
      /\ Cardinality(audits) <= Cardinality(audits')
  BY <1>1, FS_Subset, FS_CardinalityType
<1>. QED  BY <1>3, <1>4 DEF Entries, Of

LEMMA NumbersStay ==
    ASSUME IInv, IsFiniteSet(audits), [Next]_vars, NEW got, NumbersHold(got)
    PROVE  NumbersHold(got)'
BY CountsGrow DEF NumbersHold

\* The names of the answers got so far are a prefix of the queries.
LEMMA SummarizedInTurn ==
    ASSUME NEW got, DOMAIN got # DOMAIN Counted, DOMAIN got \in SummaryPrefixes
    PROVE  LET name == SummarizeAudits[Cardinality(DOMAIN got) + 1]
           IN  \/ DOMAIN got = {} /\ name = "total"
               \/ DOMAIN got = {"total"} /\ name = "transitions"
               \/ DOMAIN got = {"total", "transitions"} /\ name = "uniqueActors"
               \/ DOMAIN got = {"total", "transitions", "uniqueActors"} /\ name = "actions"
               \/ /\ DOMAIN got = {"total", "transitions", "uniqueActors", "actions"}
                  /\ name = "entityTypes"
<1>. DEFINE D1 == {"total"}  D2 == D1 \cup {"transitions"}  D3 == D2 \cup {"uniqueActors"}
            D4 == D3 \cup {"actions"}
<1>1. DOMAIN Counted = {"total", "transitions", "uniqueActors", "actions", "entityTypes"}
  BY DEF Counted
<1>2. Cardinality({}) = 0 /\ Cardinality(D1) = 1 /\ IsFiniteSet(D1)
  BY FS_EmptySet, FS_Singleton
<1>3. "transitions" \notin D1 /\ "uniqueActors" \notin D2 /\ "actions" \notin D3
  OBVIOUS
<1>4. /\ D2 = {"total", "transitions"} /\ D3 = {"total", "transitions", "uniqueActors"}
      /\ D4 = {"total", "transitions", "uniqueActors", "actions"}
  OBVIOUS
<1>. HIDE DEF D1
<1>5. IsFiniteSet(D2) /\ Cardinality(D2) = 2
  BY <1>2, <1>3, FS_AddElement
<1>. HIDE DEF D2
<1>6. IsFiniteSet(D3) /\ Cardinality(D3) = 3
  BY <1>3, <1>5, FS_AddElement
<1>. HIDE DEF D3
<1>7. Cardinality(D4) = 4
  BY <1>3, <1>6, FS_AddElement
<1>8. Cardinality({"total"}) = 1
  BY <1>2 DEF D1
<1>. QED  BY <1>1, <1>2, <1>4, <1>5, <1>6, <1>7, <1>8 DEF SummaryPrefixes, SummarizeAudits

LEMMA SummaryRead ==
    ASSUME IInv, Shapes, SummariesHold, UNCHANGED vars, NEW q \in Readers,
           Queries(q, "summary", SummarizeAudits, Counted)
    PROVE  NumbersHold(report[q].got)'
<1>. DEFINE got  == report[q].got
            name == SummarizeAudits[Cardinality(DOMAIN got) + 1]
            next == WithAnswer(got, name, Counted[name])
<1>1. NumbersHold(got) /\ DOMAIN got # DOMAIN Counted
  BY DEF SummariesHold, Queries
<1>2. report'[q] = [what |-> "summary", got |-> next]
  BY DEF Queries
<1>3. \/ DOMAIN got = {} /\ name = "total"
      \/ DOMAIN got = {"total"} /\ name = "transitions"
      \/ DOMAIN got = {"total", "transitions"} /\ name = "uniqueActors"
      \/ DOMAIN got = {"total", "transitions", "uniqueActors"} /\ name = "actions"
      \/ /\ DOMAIN got = {"total", "transitions", "uniqueActors", "actions"}
         /\ name = "entityTypes"
  BY <1>1, SummarizedInTurn DEF NumbersHold
<1>4. /\ DOMAIN next = DOMAIN got \cup {name}
      /\ \A n \in DOMAIN next : next[n] = IF n = name THEN Counted[name] ELSE got[n]
  BY DEF WithAnswer
<1>5. /\ Cardinality(audits) \in Nat
      /\ \A action \in AllOps : Entries(action) \in Nat
      /\ Entries("create") + Entries("update") + Entries("transition")
            + Entries("delete") + Entries("get") = Cardinality(audits)
  BY EntriesAddUp DEF SummariesHold, IInv, TypeOK
<1>6. Counted.uniqueActors \in Nat /\ Counted.uniqueActors <= Cardinality(audits)
  BY ActorsAreFewer DEF SummariesHold
<1>7. /\ Counted["total"] = Cardinality(audits)
      /\ Counted["transitions"] = Entries("transition")
      /\ Counted["entityTypes"] = Cardinality(audits)
      /\ GroupTotal(Counted["actions"]) = Cardinality(audits)
      /\ Counted["actions"]["transition"] = Entries("transition")
  BY <1>5 DEF Counted, GroupTotal, AllOps
<1>. HIDE DEF got, name, next
<1>8. NumbersHold(next)
  <2>1. CASE name = "total"
    BY <1>3, <1>4, <1>5, <1>7, <2>1 DEF NumbersHold, SummaryPrefixes
  <2>2. CASE name = "transitions"
    BY <1>1, <1>3, <1>4, <1>5, <1>7, <2>2 DEF NumbersHold, SummaryPrefixes, AllOps
  <2>3. CASE name = "uniqueActors"
    BY <1>1, <1>3, <1>4, <1>6, <2>3 DEF NumbersHold, SummaryPrefixes
  <2>4. CASE name = "actions"
    BY <1>1, <1>3, <1>4, <1>5, <1>7, <2>4 DEF NumbersHold, SummaryPrefixes
  <2>5. CASE name = "entityTypes"
    BY <1>1, <1>3, <1>4, <1>5, <1>7, <2>5 DEF NumbersHold, SummaryPrefixes
  <2>. QED  BY <1>3, <2>1, <2>2, <2>3, <2>4, <2>5
<1>9. audits' = audits /\ Cardinality(audits)' = Cardinality(audits)
      /\ Entries("transition")' = Entries("transition")
  BY DEF Entries, vars
<1>10. report'[q].got = next
  BY <1>2
<1>. QED  BY <1>8, <1>9, <1>10 DEF NumbersHold

LEMMA SummaryStep ==
    ASSUME IInv, Shapes, SummariesHold, [RNext]_rvars
    PROVE  SummariesHold'
<1>1. CASE Served \/ UNCHANGED rvars
  <2>1. [Next]_vars /\ UNCHANGED report
    BY <1>1 DEF Served, rvars
  <2>2. IsFiniteSet(audits')
    BY <2>1, AuditsGrow DEF SummariesHold
  <2>3. ASSUME NEW q \in Readers, Reading(q, "summary")'
        PROVE  NumbersHold(report[q].got)'
    <3>1. PICK got : got = report[q].got
      OBVIOUS
    <3>2. NumbersHold(got) /\ report'[q].got = got
      BY <2>1, <2>3, <3>1 DEF SummariesHold, Reading
    <3>3. NumbersHold(got)'
      BY <2>1, <3>2, NumbersStay DEF SummariesHold
    <3>. QED  BY <3>2, <3>3
  <2>. QED  BY <2>2, <2>3 DEF SummariesHold
<1>2. ASSUME UNCHANGED <<vars, createdAt>>, NEW q \in Readers, Reads(q),
             \A p \in Readers \ {q} : report'[p] = report[p]
      PROVE  SummariesHold'
  <2>1. UNCHANGED vars
    BY <1>2
  <2>2. /\ audits' = audits /\ Cardinality(audits)' = Cardinality(audits)
        /\ Entries("transition")' = Entries("transition")
    BY <2>1 DEF Entries, vars
  <2>3. ASSUME NEW p \in Readers \ {q}, Reading(p, "summary")'
        PROVE  NumbersHold(report[p].got)'
    <3>1. NumbersHold(report[p].got) /\ report'[p] = report[p]
      BY <1>2, <2>3 DEF SummariesHold, Reading
    <3>. QED  BY <2>2, <3>1 DEF NumbersHold
  <2>4. ASSUME Reading(q, "summary")'
        PROVE  NumbersHold(report[q].got)'
    <3>1. CASE Begins(q, "summary")
      <4>1. report'[q].got = << >> /\ DOMAIN << >> = {}
        BY <3>1 DEF Begins
      <4>. QED  BY <4>1 DEF NumbersHold, SummaryPrefixes
    <3>2. CASE Queries(q, "summary", SummarizeAudits, Counted)
      BY <2>1, <3>2, SummaryRead
    <3>. QED  BY <1>2, <2>4, <3>1, <3>2, ReadsOne
  <2>. QED  BY <2>2, <2>3, <2>4 DEF SummariesHold
<1>. QED  BY <1>1, <1>2, ReaderSteps

\* The numbers of a summary are of five moments, but none of them is more than the
\* groups that are counted after it add up to (repository/security.go:67).
THEOREM SummariesAddUp == RSpec => []SummaryAddsUp
<1>1. RInit => SummariesHold
  BY FS_EmptySet DEF RInit, Init, SummariesHold, Reading
<1>2. SummariesHold => SummaryAddsUp
  <2>. SUFFICES ASSUME SummariesHold, NEW q \in Readers, Complete(q, "summary", Counted)
                PROVE  LET got  == report[q].got
                           done == GroupTotal(got.actions)
                       IN  /\ got.total <= done /\ done <= got.entityTypes
                           /\ got.transitions <= got.actions["transition"]
                           /\ got.uniqueActors <= done
    BY DEF SummaryAddsUp, GroupTotal
  <2>. QED  BY DEF SummariesHold, NumbersHold, Complete, Counted
<1>. QED  BY <1>1, <1>2, SummaryStep, Invariants, PTL DEF RSpec

-----------------------------------------------------------------------------
(* The pages of the audit log.                                             *)

\* Every entry has its date.
DatesHold == IsFiniteSet(audits) /\ createdAt \in [audits -> Int]

Newer(a) == {b \in audits : createdAt[b] > createdAt[a]}

\* A page that is full shows as many entries as it has places: an ordering has every
\* entry at one place.
LEMMA PlacesShown ==
    ASSUME IsFiniteSet(audits), NEW order \in Orderings,
           NEW lo \in Nat, NEW hi \in Nat, lo <= hi, hi <= Cardinality(audits)
    PROVE  LET shown == {order[j] : j \in lo + 1 .. hi}
           IN  /\ shown \subseteq audits
               /\ IsFiniteSet(shown) /\ Cardinality(shown) = hi - lo
<1>. DEFINE J == lo + 1 .. hi
            shown == {order[j] : j \in J}
            f == [j \in J |-> order[j]]
<1>1. /\ order \in [1 .. Cardinality(audits) -> audits]
      /\ \A i, j \in 1 .. Cardinality(audits) : i # j => order[i] # order[j]
  BY DEF Orderings, SetToSeqs
<1>2. Cardinality(audits) \in Nat
  BY FS_CardinalityType
<1>3. \A j \in J : j \in 1 .. Cardinality(audits)
  BY <1>2
<1>4. shown \subseteq audits
  BY <1>1, <1>3
<1>5. f \in Bijection(J, shown)
  <2>1. \A j, k \in J : f[j] = f[k] => j = k
    BY <1>1, <1>3
  <2>2. f \in [J -> shown] /\ \A e \in shown : \E j \in J : f[j] = e
    OBVIOUS
  <2>. QED  BY <2>1, <2>2 DEF Bijection, Injection, Surjection, IsInjective
<1>6. IsFiniteSet(J) /\ Cardinality(J) = hi - lo
  <2>1. lo + 1 \in Int /\ hi \in Int /\ (lo + 1 > hi => hi - lo = 0)
        /\ hi - (lo + 1) + 1 = hi - lo
    OBVIOUS
  <2>. QED  BY <2>1, FS_Interval
<1>7. IsFiniteSet(shown) /\ Cardinality(shown) = hi - lo
  BY <1>5, <1>6, FS_Bijection DEF ExistsBijection
<1>. QED  BY <1>4, <1>7

\* What is behind as many newer entries as the pages before, and of whose date the page
\* shows none, is behind those that the page shows too: then the page is full.
LEMMA PagePassed ==
    ASSUME DatesHold, NEW order \in Orderings, NEW off \in Nat, NEW s \in Nat, s >= 1,
           NEW a \in audits, Cardinality(Newer(a)) >= off,
           \A j \in DOMAIN order : j > off /\ j <= off + s => createdAt[order[j]] # createdAt[a]
    PROVE  /\ Cardinality({order[j] : j \in {k \in DOMAIN order : k > off /\ k <= off + s}}) = s
           /\ Cardinality(Newer(a)) >= off + s
<1>. DEFINE n == Cardinality(audits)
<1>1. /\ order \in [1 .. n -> audits] /\ DOMAIN order = 1 .. n /\ n \in Nat
      /\ \A i, j \in 1 .. n : i # j => order[i] # order[j]
      /\ \A i, j \in 1 .. n : i < j => createdAt[order[i]] >= createdAt[order[j]]
  <2>1. order \in [1 .. n -> audits] /\ n \in Nat
    BY FS_CardinalityType DEF Orderings, SetToSeqs, DatesHold
  <2>. QED  BY <2>1 DEF Orderings, SetToSeqs
<1>2. \A b \in audits : createdAt[b] \in Int
  BY DEF DatesHold
<1>3. IsFiniteSet(audits) /\ IsFiniteSet(Newer(a)) /\ Newer(a) \subseteq audits
      /\ Cardinality(Newer(a)) \in Nat
  BY FS_Subset, FS_CardinalityType DEF Newer, DatesHold
<1>4. Cardinality(Newer(a) \cup {a}) = Cardinality(Newer(a)) + 1
  <2>1. a \notin Newer(a)
    BY <1>2 DEF Newer
  <2>. QED  BY <1>3, <2>1, FS_AddElement
<1>5. off + 1 <= n
  <2>1. Newer(a) \cup {a} \in SUBSET audits
    BY <1>3
  <2>2. Cardinality(Newer(a) \cup {a}) <= n
    BY <1>3, <2>1, FS_Subset
  <2>. QED  BY <1>1, <1>3, <1>4, <2>2
<1>. HIDE DEF n
<1>6. \A b \in audits : \E j \in 1 .. n : order[j] = b
  <2>1. order \in Injection(1 .. n, audits)
    BY <1>1 DEF Injection, IsInjective
  <2>2. Cardinality(1 .. n) = n
    BY <1>1, FS_Interval
  <2>3. order \in Surjection(1 .. n, audits)
    BY <1>3, <2>1, <2>2, FS_Injection DEF n
  <2>. QED  BY <2>3 DEF Surjection
<1>7. createdAt[order[off + 1]] >= createdAt[a]
  <2>. SUFFICES ASSUME ~(createdAt[order[off + 1]] >= createdAt[a])
                PROVE  FALSE
    OBVIOUS
  <2>0. off + 1 \in 1 .. n /\ order[off + 1] \in audits
    BY <1>1, <1>5
  <2>1. ASSUME NEW b \in Newer(a) \cup {a}
        PROVE  \E j \in 1 .. off : order[j] = b
    <3>1. PICK j \in 1 .. n : order[j] = b
      BY <1>3, <1>6
    <3>2. createdAt[order[j]] >= createdAt[a]
      BY <1>2, <2>1, <3>1 DEF Newer
    <3>3. j # off + 1
      BY <3>2
    <3>4. ~(off + 1 < j)
      BY <1>1, <1>2, <2>0, <3>2
    <3>. QED  BY <1>1, <3>1, <3>3, <3>4
  <2>2. /\ IsFiniteSet({order[j] : j \in 1 .. off})
        /\ Cardinality({order[j] : j \in 1 .. off}) = off
    <3>1. 0 \in Nat /\ 0 <= off /\ 0 + 1 = 1 /\ off - 0 = off /\ off <= n
      BY <1>1, <1>5
    <3>2. LET shown == {order[j] : j \in 0 + 1 .. off}
          IN  IsFiniteSet(shown) /\ Cardinality(shown) = off - 0
      BY <1>3, <3>1, PlacesShown DEF n
    <3>. QED  BY <3>1, <3>2
  <2>3. Newer(a) \cup {a} \in SUBSET {order[j] : j \in 1 .. off}
    BY <2>1
  <2>4. Cardinality(Newer(a) \cup {a}) <= off
    BY <2>2, <2>3, FS_Subset
  <2>. QED  BY <1>3, <1>4, <2>4
<1>8. \A j \in 1 .. n : j > off /\ j <= off + s => createdAt[order[j]] # createdAt[a]
  BY <1>1
<1>9. PICK k \in 1 .. n : order[k] = a
  BY <1>6
<1>10. k > off + s
  <2>1. ~(k > off /\ k <= off + s)
    BY <1>8, <1>9
  <2>2. ~(k <= off)
    <3>. SUFFICES ASSUME k <= off PROVE FALSE
      OBVIOUS
    <3>1. off + 1 \in 1 .. n /\ k < off + 1 /\ off + 1 > off /\ off + 1 <= off + s
      BY <1>1, <1>5
    <3>2. createdAt[a] >= createdAt[order[off + 1]] /\ order[off + 1] \in audits
      BY <1>1, <1>9, <3>1
    <3>. QED  BY <1>2, <1>7, <1>8, <3>1, <3>2
  <2>. QED  BY <1>1, <2>1, <2>2
<1>11. off + s \in Nat /\ off <= off + s /\ off + s <= n /\ (off + s) - off = s
  BY <1>1, <1>10
<1>12. Cardinality({order[j] : j \in {i \in DOMAIN order : i > off /\ i <= off + s}}) = s
  <2>1. {i \in DOMAIN order : i > off /\ i <= off + s} = off + 1 .. off + s
    BY <1>1, <1>11
  <2>2. LET shown == {order[j] : j \in off + 1 .. off + s}
        IN  Cardinality(shown) = (off + s) - off
    BY <1>3, <1>11, PlacesShown DEF n
  <2>. QED  BY <1>11, <2>1, <2>2
<1>13. \A j \in 1 .. off + s : order[j] \in Newer(a)
  <2>. SUFFICES ASSUME NEW j \in 1 .. off + s
                PROVE  order[j] \in Newer(a)
    OBVIOUS
  <2>1. j \in 1 .. n /\ j < k /\ order[j] \in audits
    BY <1>1, <1>10, <1>11
  <2>2. createdAt[order[j]] >= createdAt[a]
    BY <1>1, <1>9, <2>1
  <2>3. createdAt[order[j]] # createdAt[a]
    <3>1. CASE j > off
      BY <1>8, <2>1, <3>1
    <3>2. CASE ~(j > off)
      <4>1. off + 1 \in 1 .. n /\ j < off + 1 /\ off + 1 > off /\ off + 1 <= off + s
        BY <1>1, <1>5, <3>2
      <4>2. /\ createdAt[order[j]] >= createdAt[order[off + 1]]
            /\ createdAt[order[off + 1]] # createdAt[a]
            /\ order[off + 1] \in audits
        BY <1>1, <1>8, <2>1, <4>1
      <4>. QED  BY <1>2, <1>7, <2>1, <4>2
    <3>. QED  BY <3>1, <3>2
  <2>. QED  BY <1>2, <2>1, <2>2, <2>3 DEF Newer
<1>14. Cardinality(Newer(a)) >= off + s
  <2>1. 0 \in Nat /\ 0 <= off + s /\ 0 + 1 = 1 /\ (off + s) - 0 = off + s
    BY <1>11
  <2>2. LET shown == {order[j] : j \in 0 + 1 .. off + s}
        IN  Cardinality(shown) = (off + s) - 0
    BY <1>3, <1>11, <2>1, PlacesShown DEF n
  <2>3. {order[j] : j \in 1 .. off + s} \in SUBSET Newer(a)
    BY <1>13
  <2>4. Cardinality({order[j] : j \in 1 .. off + s}) = off + s
    BY <2>1, <2>2
  <2>5. Cardinality({order[j] : j \in 1 .. off + s}) <= Cardinality(Newer(a))
    BY <1>3, <2>3, FS_Subset
  <2>. QED  BY <2>4, <2>5
<1>. QED  BY <1>12, <1>14

\* An entry keeps its date, and those that are newer.
LEMMA DatesStep ==
    ASSUME IInv, DatesHold, Served \/ UNCHANGED rvars
    PROVE  /\ DatesHold'
           /\ audits \subseteq audits'
           /\ \A a \in audits : createdAt'[a] = createdAt[a]
           /\ \A a \in audits : /\ Cardinality(Newer(a)) \in Nat
                                /\ Cardinality(Newer(a)') \in Nat
                                /\ Cardinality(Newer(a)) <= Cardinality(Newer(a)')
<1>0. [Next]_vars
  BY DEF Served, rvars
<1>1. audits \subseteq audits' /\ IsFiniteSet(audits')
  BY <1>0, AuditsGrow DEF DatesHold
<1>2. /\ createdAt' \in [audits' -> Int]
      /\ \A a \in audits : createdAt'[a] = createdAt[a]
  <2>1. CASE audits' = audits
    <3>1. createdAt' = createdAt
      BY <2>1 DEF Served, Appended, rvars
    <3>. QED  BY <2>1, <3>1 DEF DatesHold
  <2>2. CASE audits' # audits
    <3>1. PICK date \in Dates :
              createdAt' = [a \in audits' |-> IF a \in audits THEN createdAt[a] ELSE date]
      BY <2>2 DEF Served, Appended, rvars, vars
    <3>2. date \in Int /\ \A a \in audits : createdAt[a] \in Int
      BY DatesAssumption DEF DatesHold
    <3>. QED  BY <1>1, <3>1, <3>2
  <2>. QED  BY <2>1, <2>2
<1>3. ASSUME NEW a \in audits
      PROVE  /\ Cardinality(Newer(a)) \in Nat
             /\ Cardinality(Newer(a)') \in Nat
             /\ Cardinality(Newer(a)) <= Cardinality(Newer(a)')
  <2>1. Newer(a)' = {b \in audits' : createdAt'[b] > createdAt'[a]}
    BY DEF Newer
  <2>2. Newer(a) \in SUBSET Newer(a)' /\ Newer(a)' \in SUBSET audits'
    BY <1>1, <1>2, <1>3, <2>1 DEF Newer
  <2>3. IsFiniteSet(Newer(a)')
    BY <1>1, <2>2, FS_Subset
  <2>. QED  BY <2>2, <2>3, FS_Subset, FS_CardinalityType
<1>. QED  BY <1>1, <1>2, <1>3 DEF DatesHold

Behind(query, what) == (IF what = "page" THEN query.page ELSE query.page - 1) * query.pageSize

Turning(q) == Reading(q, "count") \/ Reading(q, "find") \/ Reading(q, "page")

DateSeen(a, entries) == \E b \in entries : createdAt[b] = createdAt[a]

\* A date of which nothing was seen has as many newer entries as the pages read have
\* places: what is newer only grows, and so it is still ahead.
NoneMissed(got) ==
    /\ got.query.page \in Nat /\ got.query.page >= 1
    /\ got.query.pageSize \in 1 .. 100
    /\ got.first \subseteq audits /\ got.entries \subseteq audits
    /\ \A a \in got.first : \/ DateSeen(a, got.entries)
                            \/ Cardinality(Newer(a)) >= Behind(got.query, got.what)
    /\ got.what = "page" /\ ~got.full => \A a \in got.first : DateSeen(a, got.entries)

PagesHold ==
    /\ DatesHold
    /\ \A q \in Readers : Turning(q) => NoneMissed(report[q])

\* The rows of an int that fits are skipped; of no query more than there are.
LEMMA RowsSkipped ==
    ASSUME NEW p \in Nat, p >= 1, NEW s \in 1 .. 100
    PROVE  LET query == [page |-> p, pageSize |-> s]
           IN  /\ normalizePage(query) = query
               /\ (p - 1) * s \in Nat /\ p * s = (p - 1) * s + s
               /\ (p - 1) * s <= MaxInt => Offset(query) = (p - 1) * s
<1>1. p - 1 \in Nat /\ s \in Nat /\ \A a, b \in Nat : a * b \in Nat /\ (a + 1) * b = a * b + b
  OBVIOUS
<1>2. (p - 1) * s \in Nat /\ ((p - 1) + 1) * s = (p - 1) * s + s /\ (p - 1) + 1 = p
  BY <1>1
<1>3. ASSUME (p - 1) * s <= MaxInt
      PROVE  Offset([page |-> p, pageSize |-> s]) = (p - 1) * s
  <2>1. PICK n : n = (p - 1) * s
    OBVIOUS
  <2>. QED  BY <1>2, <1>3, <2>1 DEF Offset, Wrapped
<1>. QED  BY <1>2, <1>3 DEF normalizePage

\* A page shows what is there, and counts as full only if more may come: as long as
\* there are no more entries than an int holds, the place of its first row is right or
\* past the end.
LEMMA PageShown ==
    ASSUME DatesHold, Cardinality(audits) <= MaxInt, NEW q \in Readers, Finds(q),
           IsLong(report[q]), NoneMissed(report[q]), UNCHANGED <<vars, createdAt>>
    PROVE  NoneMissed(report[q])'
<1>. DEFINE got == report[q]
<1>1. PICK p, s, first, entries : /\ got.query = [page |-> p, pageSize |-> s]
                                  /\ first = got.first /\ entries = got.entries
  BY DEF IsLong
<1>2. PICK order \in Orderings :
          report'[q] = Pages("page", got.total, got.query, got.first,
                             got.entries \cup Page(order, normalizePage(got.query)),
                             Cardinality(Page(order, normalizePage(got.query)))
                                 = got.query.pageSize)
  BY Zenon DEF Finds
<1>3. PICK page : page = Page(order, normalizePage(got.query))
  OBVIOUS
<1>4. /\ report'[q].what = "page" /\ report'[q].query = [page |-> p, pageSize |-> s]
      /\ report'[q].first = first /\ report'[q].entries = entries \cup page
      /\ report'[q].full = (Cardinality(page) = s)
  <2>. DEFINE more == Cardinality(page) = s
  <2>1. got.query.pageSize = s
    BY <1>1
  <2>2. report'[q] = Pages("page", got.total, got.query, got.first, got.entries \cup page, more)
    BY <1>2, <1>3, <2>1, Zenon
  <2>. HIDE DEF more
  <2>3. /\ report'[q].what = "page" /\ report'[q].query = [page |-> p, pageSize |-> s]
        /\ report'[q].first = first /\ report'[q].entries = entries \cup page
        /\ report'[q].full = more
    BY <1>1, <2>2 DEF Pages
  <2>. QED  BY <2>3 DEF more
<1>5. /\ p \in Nat /\ p >= 1 /\ s \in 1 .. 100 /\ first \subseteq audits
      /\ entries \subseteq audits /\ Cardinality(audits) \in Nat
  BY <1>1, FS_CardinalityType DEF NoneMissed, DatesHold
<1>6. PICK off : off = (p - 1) * s
  OBVIOUS
<1>7. off \in Nat /\ p * s = off + s /\ normalizePage(got.query) = [page |-> p, pageSize |-> s]
  BY <1>1, <1>5, <1>6, RowsSkipped
<1>8. \A a \in first : DateSeen(a, entries) \/ Cardinality(Newer(a)) >= off
  BY <1>1, <1>6 DEF NoneMissed, Behind, Finds, Reading
<1>9. page \subseteq audits
  <2>1. page \subseteq {order[i] : i \in DOMAIN order}
    BY <1>1, <1>3, <1>7 DEF Page
  <2>. QED  BY <2>1 DEF Orderings, SetToSeqs
<1>10. ASSUME NEW a \in first, ~DateSeen(a, entries \cup page)
       PROVE  Cardinality(Newer(a)) >= off + s /\ Cardinality(page) = s
  <2>1. Cardinality(Newer(a)) >= off /\ a \in audits
    BY <1>5, <1>8, <1>10 DEF DateSeen
  <2>2. off <= MaxInt
    <3>1. Newer(a) \in SUBSET audits
      BY DEF Newer
    <3>2. Cardinality(Newer(a)) <= Cardinality(audits) /\ Cardinality(Newer(a)) \in Nat
      BY <3>1, FS_Subset, FS_CardinalityType DEF DatesHold
    <3>. QED  BY <1>5, <1>7, <2>1, <3>2, MaxIntAssumption
  <2>3. Offset([page |-> p, pageSize |-> s]) = off
    BY <1>5, <1>6, <2>2, RowsSkipped
  <2>4. page = {order[j] : j \in {k \in DOMAIN order : k > off /\ k <= off + s}}
    BY <1>3, <1>7, <2>3 DEF Page
  <2>5. \A j \in DOMAIN order :
            j > off /\ j <= off + s => createdAt[order[j]] # createdAt[a]
    BY <1>10, <2>4 DEF DateSeen
  <2>6. s \in Nat /\ s >= 1
    BY <1>5
  <2>7. /\ Cardinality({order[j] : j \in {k \in DOMAIN order : k > off /\ k <= off + s}}) = s
        /\ Cardinality(Newer(a)) >= off + s
    BY <1>7, <2>1, <2>5, <2>6, PagePassed
  <2>. QED  BY <2>4, <2>7, Zenon
<1>11. Behind([page |-> p, pageSize |-> s], "page") = off + s
  BY <1>7 DEF Behind
<1>12. /\ audits' = audits /\ createdAt' = createdAt
       /\ \A a : Newer(a)' = Newer(a)
       /\ \A a, seen : DateSeen(a, seen)' <=> DateSeen(a, seen)
  BY DEF vars, tables, Newer, DateSeen
<1>13. /\ report'[q].first = first /\ report'[q].entries = entries \cup page
       /\ report'[q].query.page = p /\ report'[q].query.pageSize = s
       /\ report'[q].what = "page"
       /\ Behind(report'[q].query, report'[q].what) = off + s
  BY <1>4, <1>11
<1>14. ~report'[q].full => \A a \in first : DateSeen(a, entries \cup page)
  <2>1. Cardinality(page) = s => report'[q].full
    BY <1>4, Zenon
  <2>. QED  BY <1>10, <2>1
<1>15. \A a \in first : \/ DateSeen(a, entries \cup page)
                        \/ Cardinality(Newer(a)) >= off + s
  BY <1>10
<1>. QED  BY <1>5, <1>9, <1>12, <1>13, <1>14, <1>15, Zenon DEF NoneMissed

LEMMA PageTurned ==
    ASSUME NEW q \in Readers, Turns(q), IsLong(report[q]), NoneMissed(report[q]),
           UNCHANGED <<vars, createdAt>>
    PROVE  NoneMissed(report[q])'
<1>. DEFINE got == report[q]
<1>1. PICK p, s, first, entries : /\ got.query = [page |-> p, pageSize |-> s]
                                  /\ first = got.first /\ entries = got.entries
  BY DEF IsLong
<1>2. /\ report'[q].what = "count" /\ report'[q].query = [page |-> p + 1, pageSize |-> s]
      /\ report'[q].first = first /\ report'[q].entries = entries
  BY <1>1 DEF Turns, Pages
<1>3. p \in Nat /\ p >= 1 /\ s \in 1 .. 100 /\ (p + 1) - 1 = p
      /\ first \subseteq audits /\ entries \subseteq audits
  BY <1>1 DEF NoneMissed
<1>4. \A a \in first : DateSeen(a, entries) \/ Cardinality(Newer(a)) >= p * s
  BY <1>1 DEF NoneMissed, Behind, Turns, Reading
<1>5. Behind([page |-> p + 1, pageSize |-> s], "count") = p * s
  BY <1>3 DEF Behind
<1>6. /\ audits' = audits
      /\ \A a : Newer(a)' = Newer(a)
      /\ \A a, seen : DateSeen(a, seen)' <=> DateSeen(a, seen)
  BY DEF vars, tables, Newer, DateSeen
<1>. QED  BY <1>2, <1>3, <1>4, <1>5, <1>6 DEF NoneMissed

LEMMA PageStarted ==
    ASSUME DatesHold, NEW q \in Readers, Starts(q), UNCHANGED <<vars, createdAt>>
    PROVE  NoneMissed(report[q])'
<1>1. PICK size \in Sizes :
          report'[q] = [what |-> "count", total |-> 0,
                        query |-> bindPage([page |-> 1, pageSize |-> size]),
                        first |-> audits, entries |-> {}, full |-> TRUE]
  BY DEF Starts
<1>2. PICK s \in 1 .. 100 : bindPage([page |-> 1, pageSize |-> size]) = [page |-> 1, pageSize |-> s]
  <2>. DEFINE s == IF size < 1 \/ size > 100 THEN 20 ELSE size
  <2>1. size \in Int /\ s \in 1 .. 100
    BY SizesAssumption
  <2>2. bindPage([page |-> 1, pageSize |-> size]) = [page |-> 1, pageSize |-> s]
    BY DEF bindPage
  <2>. QED  BY <2>1, <2>2
<1>3. /\ report'[q].what = "count" /\ report'[q].query = [page |-> 1, pageSize |-> s]
      /\ report'[q].first = audits /\ report'[q].entries = {}
  BY <1>1, <1>2
<1>4. Behind([page |-> 1, pageSize |-> s], "count") = 0
  BY DEF Behind
<1>5. audits' = audits /\ \A a \in audits : Cardinality(Newer(a)') \in Nat
  <2>1. audits' = audits /\ \A a : Newer(a)' = Newer(a) /\ Newer(a) \in SUBSET audits
    BY DEF vars, tables, Newer
  <2>. QED  BY <2>1, FS_Subset, FS_CardinalityType DEF DatesHold
<1>. QED  BY <1>3, <1>4, <1>5 DEF NoneMissed

LEMMA PageCounted ==
    ASSUME NEW q \in Readers, Counts(q), NoneMissed(report[q]), UNCHANGED <<vars, createdAt>>
    PROVE  NoneMissed(report[q])'
<1>1. PICK query, first, entries : /\ query = report[q].query /\ first = report[q].first
                                   /\ entries = report[q].entries
  OBVIOUS
<1>2. /\ report'[q].what = "find" /\ report'[q].query = query
      /\ report'[q].first = first /\ report'[q].entries = entries
  BY <1>1 DEF Counts, Pages
<1>3. Behind(query, "find") = Behind(query, "count")
  BY DEF Behind
<1>4. report[q].what = "count"
  BY DEF Counts, Reading
<1>5. /\ query.page \in Nat /\ query.page >= 1 /\ query.pageSize \in 1 .. 100
      /\ first \subseteq audits /\ entries \subseteq audits
      /\ \A a \in first : \/ DateSeen(a, entries)
                          \/ Cardinality(Newer(a)) >= Behind(query, "find")
  BY <1>1, <1>3, <1>4 DEF NoneMissed
<1>6. /\ audits' = audits
      /\ \A a : Newer(a)' = Newer(a)
      /\ \A a, seen : DateSeen(a, seen)' <=> DateSeen(a, seen)
  BY DEF vars, tables, Newer, DateSeen
<1>. QED  BY <1>2, <1>5, <1>6 DEF NoneMissed

\* That no entry was missed stays true of a reader while others take their steps.
LEMMA NoneMissedStays ==
    ASSUME IInv, DatesHold, Served \/ UNCHANGED rvars, NEW got, NoneMissed(got)
    PROVE  NoneMissed(got)'
<1>1. /\ audits \subseteq audits'
      /\ \A a \in audits : createdAt'[a] = createdAt[a]
      /\ \A a \in audits : /\ Cardinality(Newer(a)) \in Nat
                           /\ Cardinality(Newer(a)') \in Nat
                           /\ Cardinality(Newer(a)) <= Cardinality(Newer(a)')
  BY DatesStep
<1>2. got.first \subseteq audits /\ got.entries \subseteq audits
  BY DEF NoneMissed
<1>3. \A a \in got.first : DateSeen(a, got.entries) => DateSeen(a, got.entries)'
  BY <1>1, <1>2 DEF DateSeen
<1>4. PICK behind : behind = Behind(got.query, got.what)
  OBVIOUS
<1>5. behind \in Nat
  <2>1. \A a, b \in Nat : a * b \in Nat
    OBVIOUS
  <2>2. PICK p, s : p = got.query.page /\ s = got.query.pageSize
    OBVIOUS
  <2>3. p \in Nat /\ p - 1 \in Nat /\ s \in Nat
    BY <2>2 DEF NoneMissed
  <2>4. p * s \in Nat /\ (p - 1) * s \in Nat
    BY <2>1, <2>3
  <2>. QED  BY <1>4, <2>2, <2>4 DEF Behind
<1>6. \A a \in got.first : \/ DateSeen(a, got.entries)'
                           \/ Cardinality(Newer(a)') >= behind
  <2>1. \A a \in got.first : DateSeen(a, got.entries) \/ Cardinality(Newer(a)) >= behind
    BY <1>4 DEF NoneMissed
  <2>2. ASSUME NEW a \in got.first, Cardinality(Newer(a)) >= behind
        PROVE  Cardinality(Newer(a)') >= behind
    BY <1>1, <1>2, <1>5, <2>2
  <2>. QED  BY <1>3, <2>1, <2>2
<1>. QED  BY <1>1, <1>2, <1>3, <1>4, <1>6 DEF NoneMissed

LEMMA PagesStep ==
    ASSUME IInv, Shapes, PagesHold, Cardinality(audits) <= MaxInt, [RNext]_rvars
    PROVE  PagesHold'
<1>1. CASE Served \/ UNCHANGED rvars
  <2>1. UNCHANGED report
    BY <1>1 DEF Served, rvars
  <2>2. DatesHold'
    BY <1>1, DatesStep DEF PagesHold
  <2>3. ASSUME NEW q \in Readers, Turning(q)'
        PROVE  NoneMissed(report[q])'
    <3>1. PICK got : got = report[q] /\ report'[q] = got
      BY <2>1
    <3>2. NoneMissed(got)
      BY <2>1, <2>3, <3>1 DEF PagesHold, Turning, Reading
    <3>3. NoneMissed(got)'
      BY <1>1, <3>2, NoneMissedStays DEF PagesHold
    <3>. QED  BY <3>1, <3>3 DEF NoneMissed
  <2>. QED  BY <2>2, <2>3 DEF PagesHold
<1>2. ASSUME UNCHANGED <<vars, createdAt>>, NEW q \in Readers, Reads(q),
             \A p \in Readers \ {q} : report'[p] = report[p]
      PROVE  PagesHold'
  <2>1. DatesHold'
    BY <1>2 DEF PagesHold, DatesHold, vars, tables
  <2>2. ASSUME NEW p \in Readers \ {q}, Turning(p)'
        PROVE  NoneMissed(report[p])'
    <3>1. /\ audits' = audits
          /\ \A a : Newer(a)' = Newer(a)
          /\ \A a, seen : DateSeen(a, seen)' <=> DateSeen(a, seen)
      BY <1>2 DEF vars, tables, Newer, DateSeen
    <3>. QED  BY <1>2, <2>2, <3>1 DEF PagesHold, NoneMissed, Turning, Reading
  <2>3. ASSUME Turning(q)'
        PROVE  NoneMissed(report[q])'
    <3>1. CASE Starts(q)
      BY <1>2, <3>1, PageStarted DEF PagesHold
    <3>2. ASSUME Counts(q) \/ Finds(q) \/ Turns(q)
          PROVE  NoneMissed(report[q])'
      <4>1. NoneMissed(report[q]) /\ IsLong(report[q]) /\ DatesHold
        BY <3>2 DEF Counts, Finds, Turns, PagesHold, Turning, Shapes
      <4>. QED  BY <1>2, <3>2, <4>1, PageCounted, PageShown, PageTurned
    <3>. QED  BY <1>2, <2>3, <3>1, <3>2, ReadsOne DEF Turning
  <2>. QED  BY <2>1, <2>2, <2>3 DEF PagesHold
<1>. QED  BY <1>1, <1>2, ReaderSteps

\* A caller who turns the pages of the audit log until one is not full has seen an entry
\* of every date the log had when it began, whatever entries share a date and however
\* the database orders those, in each query anew (repository/security.go:58).  It is
\* proved for a log that has no more entries than the largest int: then a page whose
\* offset would come round lies past the end, and is asked for after all was seen.
THEOREM PagesSkipNoDate ==
    RSpec /\ [](Cardinality(audits) <= MaxInt) => []AuditPagesSkipNoDate
<1>1. RInit => PagesHold
  <2>1. [a \in {} |-> 0] \in [{} -> Int]
    OBVIOUS
  <2>. QED  BY <2>1, FS_EmptySet DEF RInit, Init, PagesHold, DatesHold, Turning, Reading
<1>2. PagesHold => AuditPagesSkipNoDate
  BY DEF PagesHold, AuditPagesSkipNoDate, NoneMissed, DateSeen, Turning, Reading
<1>3. /\ IInv /\ Shapes /\ PagesHold /\ Cardinality(audits) <= MaxInt /\ [RNext]_rvars
      => PagesHold'
  BY PagesStep
<1>. QED  BY <1>1, <1>2, <1>3, Invariants, PTL DEF RSpec

=============================================================================
