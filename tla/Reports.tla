------------------------------ MODULE Reports ------------------------------
(***************************************************************************)
(* What callers read about the decisions while others change them: the list *)
(* with its revisions (repository/priority_decision.go), the pages of the   *)
(* audit log and its summary (repository/security.go).  Each is more than   *)
(* one query and no two of them are one snapshot: between two queries of a  *)
(* report any request takes its steps.  A query that fails ends its report  *)
(* with 500 and shows nothing.                                              *)
(*                                                                         *)
(* The decisions fit on one page, and the server is younger than the window *)
(* of the summary.                                                         *)
(***************************************************************************)
EXTENDS PriorityDecision, Api, Paging, SequencesExt

CONSTANTS
    Readers,    \* callers who read one report each
    Sizes,      \* page sizes that they ask for
    Dates       \* the microseconds of the clock that entries are dated by

ASSUME SizesAssumption == Sizes \subseteq Int
ASSUME DatesAssumption == Dates \subseteq Int

VARIABLES
    createdAt,  \* the created_at of each entry of audits
    report      \* what each reader has got

rvars == <<vars, createdAt, report>>

Reading(q, what) == report[q] # None /\ report[q].what = what

RInit ==
    /\ Init
    /\ createdAt = [a \in audits |-> 0]
    /\ report = [q \in Readers |-> None]

-----------------------------------------------------------------------------
\* An entry is dated when it is made and appended later: beside the others it may be
\* older, newer, or of the same microsecond.
Appended ==
    IF audits' = audits THEN UNCHANGED createdAt
    ELSE \E date \in Dates :
             createdAt' = [a \in audits' |-> IF a \in audits THEN createdAt[a] ELSE date]

Served == Next /\ Appended /\ UNCHANGED report

-----------------------------------------------------------------------------
(* A report that is read by queries in a fixed order, each of a moment of   *)
(* its own.                                                                *)

May(roles) == \E u \in Users : Role[u] \in roles

Begin(q, what, roles) ==
    /\ May(roles)
    /\ report[q] = None
    /\ report' = [report EXCEPT ![q] = [what |-> what, got |-> << >>]]
    /\ UNCHANGED <<vars, createdAt>>

\* What a report has got so far, and one answer more.
WithAnswer(got, name, answer) ==
    [n \in DOMAIN got \cup {name} |-> IF n = name THEN answer ELSE got[n]]

NextQuery(q, what, queries, answers) ==
    /\ Reading(q, what)
    /\ DOMAIN report[q].got # DOMAIN answers
    /\ LET name == queries[Cardinality(DOMAIN report[q].got) + 1]
       IN  report' = [report EXCEPT ![q].got = WithAnswer(@, name, answers[name])]
    /\ UNCHANGED <<vars, createdAt>>

Entries(action) == Cardinality({a \in audits : a.action = action})

\* What each query of the summary counts.
Counted ==
    [total        |-> Cardinality(audits),
     transitions  |-> Entries("transition"),
     uniqueActors |-> Cardinality({a.actor : a \in audits}),
     actions      |-> [action \in AllOps |-> Entries(action)],
     entityTypes  |-> Cardinality(audits)]

\* Mutant: the groups are counted before what they are groups of.
GroupsFirst == <<"actions", "entityTypes", "total", "transitions", "uniqueActors">>

SummarizeAudits == <<"total", "transitions", "uniqueActors", "actions", "entityTypes">>

LiveCodes == {c \in Codes : Live(c)}

\* The list: the total, the rows, and Preload("Revisions").
Listed ==
    [rows |-> [c \in LiveCodes |-> rows[c]], revisions |-> revisions,
     total |-> Cardinality(LiveCodes)]

\* Mutant: the revisions are read before the rows.
RevisionsFirst == <<"total", "revisions", "rows">>

List == <<"total", "rows", "revisions">>

Summarize(q) ==
    \/ Begin(q, "summary", AuditRoutes)
    \/ NextQuery(q, "summary", SummarizeAudits, Counted)

ReadList(q) ==
    \/ Begin(q, "list", PriorityDecisionHandler.list.roles)
    \/ NextQuery(q, "list", List, Listed)

-----------------------------------------------------------------------------
(* The audit log, a page after the other.                                  *)

Audits(q, size) ==
    /\ May(AuditRoutes)
    /\ report[q] = None
    /\ report' = [report EXCEPT ![q] =
                    [what |-> "count", total |-> 0,
                     query |-> bindPage([page |-> 1, pageSize |-> size]),
                     first |-> audits, entries |-> {}, full |-> TRUE]]
    /\ UNCHANGED <<vars, createdAt>>

CountAudits(q) ==
    /\ Reading(q, "count")
    /\ report' = [report EXCEPT ![q].what = "find", ![q].total = Cardinality(audits)]
    /\ UNCHANGED <<vars, createdAt>>

\* Mutant: a query without its ORDER BY.
Unordered == SetToSeqs(audits)

\* ORDER BY created_at DESC, and no second key: entries of one date come in any order,
\* in each query anew.
Orderings ==
    {order \in SetToSeqs(audits) :
        \A i, j \in DOMAIN order : i < j => createdAt[order[i]] >= createdAt[order[j]]}

\* Offset and Limit.
Page(order, query) ==
    {order[i] : i \in {j \in DOMAIN order : /\ j > Offset(query)
                                           /\ j <= Offset(query) + query.pageSize}}

FindAudits(q) ==
    /\ Reading(q, "find")
    /\ \E order \in Orderings :
          LET page == Page(order, normalizePage(report[q].query))
          IN  report' = [report EXCEPT
                  ![q].what = "page", ![q].entries = @ \cup page,
                  ![q].full = Cardinality(page) = report[q].query.pageSize]
    /\ UNCHANGED <<vars, createdAt>>

\* A caller who wants the whole log turns the page as long as pages come full.
TurnPage(q) ==
    /\ Reading(q, "page") /\ report[q].full
    /\ report' = [report EXCEPT ![q].what = "count", ![q].query.page = @ + 1]
    /\ UNCHANGED <<vars, createdAt>>

Answer(q) == Summarize(q) \/ ReadList(q) \/ CountAudits(q) \/ FindAudits(q)

RNext ==
    \/ Served
    \/ \E q \in Readers : Answer(q) \/ TurnPage(q) \/ \E size \in Sizes : Audits(q, size)

RSpec == RInit /\ [][RNext]_rvars

\* The fairness of PriorityDecision; readers may stop or go on for ever.
RFairness == \A r \in Requests : WF_rvars(Serve(r) /\ Appended /\ UNCHANGED report)

RFairSpec == RSpec /\ RFairness

-----------------------------------------------------------------------------
(* What a report can be trusted with.                                      *)

Complete(q, what, answers) == Reading(q, what) /\ DOMAIN report[q].got = DOMAIN answers

\* The numbers of a summary are of five moments, but none of them is more than the
\* groups that are counted after it add up to: the queries go from the parts that
\* are named to the whole, and entries only come.
SummaryAddsUp ==
    \A q \in Readers : Complete(q, "summary", Counted) =>
        LET got  == report[q].got
            done == got.actions["create"] + got.actions["update"] + got.actions["transition"]
                       + got.actions["delete"] + got.actions["get"]
        IN  /\ got.total <= done /\ done <= got.entityTypes
            /\ got.transitions <= got.actions["transition"]
            /\ got.uniqueActors <= done

\* A caller who turns the pages of the audit log until one is not full has skipped no
\* date that the log had when it began: of each it has seen an entry, so it has seen
\* every entry that shares its created_at with no other, though new entries move the
\* others to later pages as it reads.  More cannot be said: of two entries of one date
\* the first page may end with the one and the second begin with the same again, for
\* nothing orders them (repository/security.go:58; the lists add id DESC), and then
\* the other is on neither.  (The totals cannot be used: each is older than its page.)
AuditPagesSkipNoDate ==
    \A q \in Readers : Reading(q, "page") /\ ~report[q].full =>
        \A a \in report[q].first :
            \E b \in report[q].entries : createdAt[b] = createdAt[a]

\* Every decision of a list comes with the whole history of the version it shows,
\* and the revision of that version says what the row says.  It may come with later
\* revisions, of which a page shows the last one next to the row: then the row in the
\* table has moved on too, and a request that names the version shown is refused.
ListCoversHistory ==
    \A q \in Readers : Complete(q, "list", Listed) =>
        \A c \in DOMAIN report[q].got.rows :
            LET row  == report[q].got.rows[c]
                mine == {v \in report[q].got.revisions : v.code = c}
            IN  /\ 1 .. row.version \subseteq {v.version : v \in mine}
                /\ \A v \in mine : v.version = row.version =>
                       v.status = row.status /\ v.content = row.content
                /\ \A v \in mine : v.version > row.version =>
                       rows[c].version > row.version

=============================================================================
