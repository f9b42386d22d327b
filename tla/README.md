# Formal models of the railway bridge defect priority platform

TLA+ specifications of the Go backend in `src/backend` and of the workbench in
`src/frontend`, the TLC runs that check
them on small instances, and the proofs that TLAPS checks for every instance.
Paths below are relative to `src/backend/internal` unless they start with
`src/`.

## 1. The system

A Gin server serves a Vue workbench. Every HTTP request is a goroutine of its
own; there is no lock, queue or cache between requests, so everything they share
is in the database (SQLite, MySQL or PostgreSQL through GORM), in Redis, or in the
rate limiter's map. What keeps two requests apart is therefore a `WHERE version =
?` on an update, a unique index, or nothing.

| Component | State | Operations | Correct when |
|---|---|---|---|
| Priority decision service: `service/`, `repository/`, `handler/priority_decision.go` | `priority_decisions`, `priority_decision_revisions` | create, update, transition, delete, get (list, counts) | a final status is never replaced; every version has exactly one revision; the reviewer is not the preparer and reviews what was recorded last; what the caller is told is what happened |
| Bridge, inspection and defect services: one code three times | a table each | create, update, transition, delete (get, list, counts) | no update is lost or applied twice; status moves along the graph; a deletion is acknowledged once |
| Generic store: `repository/base.go` | none of its own | Get, Create, Update (version check), Delete (soft) | as above |
| Status graphs: `constants/status.go` | four constant graphs | `CanTransition` | the services and the workbench use the same graphs |
| Audit trail and login: `service/security.go`, `repository/security.go` | `audit_logs`, `users` | append, login, queries | the log tells what happened, and of acknowledged changes nothing is missing |
| Role gates and tokens: `middleware/auth.go` | none: the role is in the token | authenticate, role gates | an operation is reached only with its role |
| Rate limiter: `middleware/ratelimit.go` | Redis counters, a local map | count and judge a request, clean up | no more than the limit passes in a minute, nobody is refused early, the map forgets |
| Startup: `database/database.go`, `src/backend/cmd/server/main.go` | the schema and the seeds | connect with retries, migrate, seed, serve, shut down | what the services start from is a state they could have reached |
| System handler: `handler/system.go` | none | health, overview, session, runtime, audits (reads) | a report of several queries can be trusted though each sees another moment |
| Router and handlers: `router/router.go`, `handler/*.go`, `util/http.go` | none | gates, parsing, the status of an answer | the same gates on every path to an operation; an answer's status says whether something was done |
| Configuration: `config/config.go` | none after startup | load, validate | no environment makes a process that starts and cannot work |
| Request middleware: `middleware/request.go` | none | ids, headers, panics, logging | |
| Workbench: `src/frontend` | the items each store shows, the dialogs, the session; the token all tabs share | log in and out, load, search, create, review | it names versions it was shown, tells of a change what is so, shows it after its reload, and offers what will be done |

How they interact: a route's chain is rate limiter, authentication, role gate,
handler, service. The service calls its repository and then the security service
(audit), one call after the other, each a round trip; only the decision
repository groups two statements in a transaction. The services never read each
other's tables (`RelatedCode` is text), so what they share is the audit log. The
workbench reads a page, and sends the version it shows with each change.

The hard behaviours, listed with their lines in `PROJECT.json` under `hazards`:

* a service judges a row it read by one query and writes by another; other
  requests take any steps in between;
* `Update` and `Transition` write the whole row they read, under a version that
  comes from the caller;
* `Delete` writes without a version;
* the audit entry is a third statement, after the commit, and may fail or never
  happen; two operations report that and two drop it;
* the reply is one or two further queries;
* the limiter switches between two kinds of counters while minutes end, counters
  expire, and the Redis client retries;
* a list, a page of the audit log and its summary are two to five queries each,
  and no two of them see one snapshot;
* the workbench has loads in flight that nothing orders, dialogs that outlive the
  list they were opened on and can be confirmed twice, and a session that another
  tab may have replaced.

## 2. The modules

| Module | Models |
|---|---|
| `PriorityDecision` | the decision service with its repository and handler |
| `DecisionLedger` | its abstract specification: a ledger of entries that only grows |
| `PriorityDecisionRefinement` | the mapping from tables to ledger |
| `PriorityDecisionProofs` | theorems about the three above |
| `DomainRecord` | the bridge, inspection and defect services on the generic store |
| `RecordServices` | what sets the three apart: graph, initial status, seeds |
| `RecordLifecycle` | the abstract specification of a record |
| `DomainRecordProofs` | theorems about `DomainRecord` |
| `RateLimiter` | the rate limiter |
| `FixedWindow` | its abstract specification: a book of judged requests that forgets nothing |
| `RateLimiterProofs` | theorems about the two |
| `Startup` | a process from its start to its exit |
| `StartupProofs` | theorems about it |
| `Api` | the gates of the routes, what handlers parse, and the statuses of answers |
| `Workbench` | a tab of the workbench in front of the decision service |
| `WorkbenchProofs` | theorems about it |
| `Paging` | what becomes of the numbers in a query, with theorems |
| `Reports` | the list of decisions, the audit log and its summary, read while others write |
| `ReportsProofs` | theorems about it |
| `Configuration` | what becomes of the environment of a process, with theorems |
| `MCPriorityDecision`, `MCDomainRecord`, `MCRateLimiter`, `MCStartup`, `MCWorkbench`, `MCReports` | instances for TLC |

### PriorityDecision

`rows`, `revisions` and `audits` are the tables. `stage[r]` is where request `r`
stands in the code, or the answer it was given; `call[r]` its input, `snap[r]`
the row its first query returned (the local variable `item`), `view[r]` what its
reply shows. One action is one call on the database with the code up to the next
one:

| Action | Code |
|---|---|
| `CreateArrives`, `UpdateArrives`, `TransitionArrives`, `DeleteArrives` | role gate and binding in the handler, the first `Get`, and the checks on it, in the order of the code (`UpdateVerdict` ...) |
| `CreateCommit`, `UpdateCommit`, `TransitionCommit` | the transaction: row and revision, or neither; no matching version is a conflict |
| `DeleteCommit` | the soft delete by id |
| `Audit` | `AppendAudit` |
| `GetArrives`, `ReplyRow`, `ReplyHistory` | the two queries of `Get` with its `Preload`, for reads and replies |
| `CallFails`, `AuditFails`, `Crash` | a call returns an error; the process stops |

A row is named by its code. This is sound because a code is never reused: the
unique index also covers soft deleted rows, so a creation under a used code fails
(`CreateCommit`'s second branch). "Content" is one value for all business fields
and the evidence, with `Blank` for what fails validation after trimming. Snapshots
(a JSON copy of the row in the revision) and timestamps are left out.

`Expected` is the caller's knowledge. With `Speculative = FALSE` a caller names a
version the row has had, as the workbench does, which only sends a version it was
shown. With `Speculative = TRUE` it names any version up to `MaxVersion`, as the
API allows. The distinction matters: see section 5.

### DomainRecord

The three service files are the same line for line but for the graph, so they are
one module, and each code belongs to a service `Service[c]` with its graph and
initial status (`RecordServices`). There is no owner, no final status and no
history; `Create` answers with the row it wrote, the others read it again. The
actions are those of `PriorityDecision`, with a single conditional `UPDATE` in
place of the transaction.

### RateLimiter

`shared[w][k]` is the Redis counter of minute `w`, `local[p][k]` the bucket of
process `p`. `increment` and `incrementLocal` are one step each: INCR is atomic,
the local map is under a mutex. The minute is read twice, once for the name of
the Redis counter (`Arrive`) and again under the lock, and `Tick` may come between.
`AnswerLost` is a retry inside go-redis after the increment was done, `RedisFails`
the fallback, `Restart` a process that loses its map. `retried` is a history
variable that no action reads. `Tick` assumes that a Redis call does not outlast
the minute after it began (the client's timeouts are seconds) and that processes
read one clock.

`FixedWindow` says what this comes to. Its book holds an entry for each request that was
judged, under its counter, key and minute (`Book` computes it from `charge` and `call`); a
request passes if no more than `Limit` are entered like it and is refused if more are.
Nothing is ever cleaned up, expires or starts from zero. `ImplementsWindow` states that
the limiter judges as the book does, although it keeps numbers only, in keys that expire
two minutes after their last increment and in maps that are cleaned up. The three ways in
which it may not be so are steps of the abstract specification, too: a restart takes the
entries of that process (`Forget`), a retried call may get a request refused early (`Double`),
and a request may be judged in Redis by a minute that ended while it was being counted
(`Counting`).

### Startup

`tables` says of each code whether it is absent, live or soft deleted; `stage[p]` is
where process `p` stands in `Open` and `main`, `listener[p]` the goroutine that calls
`ListenAndServe`. `Count` and `Insert` are the two calls that seed a table: the query
sees live rows only, the unique index sees all. An insertion is one step because
it is one statement, or for decisions one transaction, in the code. Requests of
serving processes create and delete records meanwhile. `NotReady` is a failed
attempt to connect, whose error a second ping may replace. `Start` is the restart
policy of `src/docker-compose.yml` or an operator. Processes may be several servers or
the old and the new one; a process whose configuration `config.Load` refuses exits
before it connects and is left out, and two migrations that disturb each other are calls
that fail.

### Api and Workbench

`Api` is one record per handler: for each operation the roles its route lets through,
what it parses, and the status of its success; `handleError` gives the status of each
error, `AnswerTo` also that of a request that is turned down before its service.
`Workbench` puts one tab in front of `PriorityDecision`: `session` is the user the tab
shows, `stored` the token in localStorage, `items` and `loading` the store, `pending` the
dialog, `post[r]` a request of the page with its promise, `load` the loads in flight.

| Action | Code |
|---|---|
| `authenticate`, `logout`, `TokenChanges` | `useAuth.ts`; another tab, or the token's expiry |
| `StartLoad`, `List` (`ListRows`, `ListRevisions`), `LoadArrives`, `LoadFails` | `load` of the store: sent, read by the server in two queries, and its answer, the last to arrive being shown |
| `AskTransition`, `Cancel`, `createDemo`, `confirmTransition` | the buttons and dialogs of `EntityPage.vue` |
| `Served` | the request reaches the service, with the user of the token it was sent with: `CreateArrives` or `TransitionArrives` of `PriorityDecision` |
| `Changed`, `TurnedDown`, `NoSuccess` | the answer, judged by its status: a success is followed by a reload; `Limited` is the limiter's 429, which may meet any request |

The tab and its requests run on the steps of `PriorityDecision`, and all requests the tab
does not send are those of other callers, other tabs included. A list is read in two
queries, the rows and then the revisions, so the evidence an item shows
(`latestRevision`, the last revision that came with it) may be of a version newer than
its row. A load is the first page of twenty, by the time of the last change
(`src/frontend/src/stores/factory.ts:9`): the model has fewer decisions, and among more
than twenty a reload shows a change unless as many others were changed between the two,
which is what `ReloadShowsChange` takes for granted. A login is one step: what matters of
it is whose token is stored from then on. The code of a new draft comes from the last six digits of a
clock and may repeat; then the creation fails.

### Reports, Paging and Configuration

`Reports` adds callers that read to the requests of `PriorityDecision`. `report[q]` is
what reader `q` has got; each query is a step. `SummarizeAudits` and `List` are the orders
of the queries, `Counted` and `Listed` what each would return now. `createdAt` dates the
entries of `audits`: an entry is dated before it is inserted, so a new one may come behind
others, or have the date of another (`Appended`). The query orders by that date alone, so
every query may put entries of one date in another order (`Orderings`), and an entry may
then be on no page though all pages were read; what can be relied on is that no date
is skipped (`AuditPagesSkipNoDate`; section 5). `TurnPage` is the caller. The workbench is
not such a one: its page (`src/frontend/src/pages/AuditPage.vue`) reads the first thirty
entries and turns no pages, so `TurnPage` is any other client of `GET /api/audits`.
`Paging` is what handler, query, service and repository each do to the page, the size,
the hours and the limit a caller sends, with the product that may come round.
`Configuration` translates `Load` and `Validate` with the helpers that replace what is
missing or useless by a default, and with the times that a token is signed with (`Claims`),
which are whole seconds.

## 3. The runs

| Run | What it asks | Bounds |
|---|---|---|
| `decision_lifecycle` | everything the service promises callers that name versions they were shown, and that it implements the ledger | 3 requests, operator, reviewer and admin, a seeded draft and an unused code, 2 contents |
| `decision_hostile` | what holds for callers that guess versions while calls fail and the server crashes | 3 requests, all four roles, 1 decision, versions up to 2 named |
| `decision_liveness` | every request is answered, every change is audited, and reports that are read meanwhile hold together | 2 requests, all operations, one report |
| `record_services` | no lost update, an audit log that accounts for the table, and the lifecycle, for a bridge, an inspection and a finding | 3 requests, 3 records, 2 contents |
| `record_hostile` | the same service under guessed versions, failures and crashes | 3 requests, 1 finding |
| `rate_limiter` | the limit, honest refusals, bounded memory, and the book | 3 requests, 2 processes, 3 keys, 3 minutes, limit 1, cleanup at 2 |
| `startup` | that starts seed and leave data alone, that stops drain, that both end | 2 processes, 2 requests, 2 attempts, 3 failures, crashes or stops |
| `workbench` | that the page's requests are the service's without guessed versions, and that what it tells, shows and offers is so | one tab, 2 requests of it or of others, a load besides the reloads, a draft and a code to be created, 2 contents |
| `overwritten_review`, `deleted_review`, `unaudited_review`, `off_graph_status` | the four divergences of section 5 | 2 requests |

Why the bounds are enough. A request interferes through one row, and no property
relates more than two requests and a third that comes between them, so three
requests show each pattern: a stale reader, a winner, and a witness that reads or
deletes. A second code shows that requests on different rows do not disturb each
other and gives creation a target. Two contents tell an old edit from a new one.
The cleanup threshold 512 and the limit (180 by default) are scaled to 2 and 1, with more
requests than the limit and more keys than the threshold. Two requests and a load let
a reload overlap with a search, a dialog be confirmed twice, and another caller change
what a dialog shows. A page of the audit log holds one entry or twenty and entries have one
of two dates, so that both requests move entries while the log is read, and put new ones
before, behind and beside the others. Two processes race for the
seeds, one table is emptied by one request, and three faults allow a crash, a
failed start and a stop in one behaviour; the attempts are scaled from 20 to 2. Requests are
interchangeable, so safety runs use symmetry; the runs with liveness do not.

Fairness. `decision_liveness` assumes weak fairness of `Serve(r)` for each
request: its goroutine is scheduled and its database calls return, with an answer or an
error. That calls return is an assumption about the drivers and the network; the code
sets no deadline on them (`WriteTimeout` bounds the writing of the answer and does not
cancel the request's context). Nothing is
assumed of arrivals, nor of the callers that read. `startup` assumes that a process that failed is started again (the restart
policy), that its calls return, and that the timeout of a stop ends; it assumes nothing
of requests, and faults are finite. In the other runs no fairness is assumed.

Deadlock is checked in every run: `Quiet` is the server waiting once all requests
have their answer, so a deadlock would be a request that cannot go on.

Each property has a mutant: a definition of the module changed as a plausible bug
would (`UnlockedUpdateVerdict` forgets the status check, `RevisionFirst` leaves the
transaction, `ReadThenSet` reads and writes a counter in two calls, ...), kept next
to the definition it replaces. TLC finds each property violated under its mutant.

## 4. The proofs

`PriorityDecisionProofs` proves, for any sets of requests, users, codes and
contents, any seeds, failures and crashes:

| Theorem | Property | Assumes |
|---|---|---|
| `TypeCorrect` | `TypeOK` | |
| `HistoryIsComplete` | `RevisionChain` | |
| `ReadsStayGood` | `SnapshotsHold` | |
| `ReviewsAreIndependent` | `IndependentReview` | |
| `HistoryOnlyGrows` | `HistoryGrowsWithRow` | |
| `ReviewsAreFinal` | `ReviewIsFinal` | callers name versions they were shown |
| `ReviewsKeepContent` | `ReviewedContentKept` | the same |
| `ServiceImplementsLedger` | `ImplementsLedger` | the same |
| `PagesCoverHistory` | `ReadCoversHistory` | |
| `AcknowledgementsAreAudited` | `AcknowledgedIsAudited` | |
| `AcknowledgementsAreRecorded` | `AcknowledgedIsRecorded` | |
| `RefusalsHold` | `RefusalsAreTrue` | callers name versions they were shown |
| `AuditIsTruthful` | `AuditTruthful` | the same |

The assumptions on the constants are the `ASSUME`s of `PriorityDecision`: roles
are roles, seeds are seeded by a user and reviewed by another who may, `None` and
`Blank` are not values.

The argument. `RevisionChain` is not inductive alone: a transition writes the row
it read under the caller's version, so one must know that the row it read still
has the same content and status when the versions agree. That is `SnapshotsHold`,
and the inductive invariant is `TypeOK /\ RevisionChain /\ SnapshotsHold`. The proofs
rest on `TableSteps`: a step leaves `rows` and `revisions` alone, or is the commit
of one request, in one of three forms (`Creates`, `Rewrites`, `Removes`); three
lemmas say what each form writes. From there every property is about one row and
one revision. `ReviewIsFinal` uses the version clause of `SnapshotsHold`: a caller
that names a version it was shown names one no newer than the row the service
read, so when the write matches, the row has not moved since it was judged.

What a caller is told and what is audited rest on a second invariant, `Trails`
(`TrailsHold`), which says of each request what it has left in the tables, by where it
stands in the code: its one revision is as it asked (`RecordedAs`) and its one entry as
`AuditOf` made it, both only after the commit, and 404 after a write means a deleted row
(`AnswerHolds`). It is proved request by request: a step of another request keeps what
this one left (`BystanderStep`), since the tables only grow, and its own steps are
taken one stage at a time. `RefusalsHold` and `AuditIsTruthful` need callers that do not
guess: a request that names a version ahead of the row it read may be told 409 where
nobody has written that version, and the status its entry names as the one before is
that of the row it read, no longer that of the revision it follows.

`DomainRecordProofs` proves, for any requests, users, codes, contents, graphs and
seeds:

| Theorem | Property | Assumes |
|---|---|---|
| `RecordTypeCorrect` | `TypeOK` | |
| `RecordReadsStayGood` | `SnapshotsHold` | |
| `NoLostUpdate` | `WritesAreSerial` | no call fails (`~Faults`) |
| `OneIsToldItDeleted` | `OneDeletion` | |
| `RepliesShowWrites` | `ReplyShowsWrite` | |
| `GraphIsFollowed` | `StatusFollowsGraph` | callers name versions they were shown |
| `ServiceImplementsLifecycle` | `ImplementsLifecycle` | the same |
| `RecordAcknowledgementsAreAudited` | `AcknowledgedIsAudited` | |
| `AuditExplainsTable` | `AuditReplays` | no call fails, callers name versions they were shown |

The argument is the same: `TableSteps` names the forms in which a step writes the
table, and `TypeOK /\ SnapshotsHold` is inductive. `WritesAreSerial` is proved version by
version (`Serial`): a write that matched names the table's version, which no earlier
write can have named, since all of those named smaller ones. `~Faults` is needed only to
tell which requests wrote: after a failure the caller cannot know either. `OneDeletion`
follows from a deleted row staying deleted while a deletion needs a live one, and
`ReplyShowsWrite` from the version never going back (`RowGrows`).

`AuditReplays` counts entries, so its invariant is a balance (`Balanced`): the entries
written, with those that requests past their write are about to write (`Due`), arrive at
each status as often as they leave it, but for the one the row is in. Each write and its
entry enter the balance in one step, whatever order the entries reach the log in, and
the guess-free version makes the status the entry leaves the one the row had. Where calls
fail an entry may be missing for good, which is what `~Faults` excludes.

`RateLimiterProofs` proves `LimiterTypeCorrect` (that the state keeps its shape) and `LimitHolds`
(`CounterLimit`) for any requests, processes, keys, limit, cleanup threshold and number
of minutes, with failures, retries, expiry and restarts. The invariant that carries it
(`Numbered`) says that two requests counted by the same counter in the same minute were
handed different counts, and that as long as a minute may still be counted, its
counter is at least the largest count handed out. The requests that passed then map one
to one into `1 .. Limit` by their counts, which bounds how many there are.

`RefusedAreOverLimit` (`RefusedIsOverLimit`) is the other direction: counts have no gaps.
`Accounted` says that each number up to a count that was handed out, and up to where a
counter of a minute that still counts stands, was handed out to some request, unless a
retried call moved that counter twice; a request that is refused at count `Limit + 1` is
therefore one of as many. `StaleIsBounded` (`StaleBounded`) needs `Tidy`: no bucket is of
a minute to come and finitely many keys have one, so an increment, which drops the
buckets of other minutes once there are `CleanupAt`, leaves fewer than that.

`LimiterImplementsWindow` (`ImplementsWindow`) needs all of these. `Numbered` and `Accounted`
together say that a counter of a minute that may still be counted stands exactly at the
number of entries of the book like it (`ExactCount`), or above it if a call was retried, so
the next count exceeds `Limit` just when the book is full (`JudgedByTheBook`); `BookGrows`
and `RestartForgets` say what a step does to the book, and every other step leaves it as
it is (`NobodyJudged`). `TotalIsLimited` adds up the counters: a request that passed is one of
`Limit` numbers of one of `|Processes| + 1` counters, so no more than the product pass for a
key in a minute, what a process let pass before it restarted aside. It assumes that there
are finitely many processes, and no run checks it: with the 3 requests, 2 processes and limit 1 of
`rate_limiter` it would hold whatever the code does. `LimiterTypeCorrect` is proved, and not
checked by the run.

`StartupProofs` proves, for any processes, seeds, attempts and faults, `StartupTypeCorrect`
(`TypeOK`), `ServersAreSeeded` (`ServedIsSeeded`), `StartsLeaveDataAlone`
(`StartsOnlySeed`) and `StopsDrain` (`StopDrains`). The invariant says that each table
is unused or has all its seeds (`AllOrNothing`), that the tables a process has left
behind have theirs (`LeftBehind`), and that a request runs in a process that came past
all of them (`RunsInServer`). The last is needed for the first: a request may write
to a table, and only because its server is up is that table not an unused one.

`WorkbenchProofs` proves, for any users, codes, requests, loads and searches, beside
other callers that name versions they were shown, `PageTypeCorrect` (`PageTypeOK`),
`WorkbenchNamesShownVersions` (`CallersNameShownVersions`) and, from it and
`ReviewsAreFinal`, `WorkbenchReviewsAreFinal`: a review from the workbench is final,
whatever lists overlap and whatever is confirmed twice. The invariant (`PageShown`) says
where versions come from: every item of the list, of the dialog, of a request or of an
answer on its way, and every row of a list whose revisions are not read yet, names a
version that its decision has had (`HasBeen`), and since versions only grow (`RowGrows`) it
stays one. That a reload belongs to a request of the page is part
of `PageTypeOK` because the end of a reload resolves that request's promise.

`PagesAreToldTheTruth` (`PageToldTruth`), `ReviewsAreAsShown` (`ReviewedAsShown`),
`ReloadsShowChanges` (`ReloadShowsChange`) and `OffersAreKept` (`OffersMatchServices`)
join the page to its service. An item shows what the history says of the version it names,
or there is a later version already (`Shown`, `Overtaken`): its list read the rows before the
revisions. Who confirms such an item cannot win: the version after the one it names was
made by another request (`ByOthers`), so the answer is a conflict. What the service serves
is what the page sent, for the user of the token it was sent with (`Delivered`), and what
a promise says is how its request was answered (`Told`). With `Trails` of the
service, which says what an answer means in the tables, and `Finality`, the four follow
from the conjunction (`Joined`). `OffersAreKept` is the graphs and gates of the frontend
compared with those of the services, for every row that is as it is shown.

`ReportsProofs` proves, for any readers and page sizes, beside any requests, failures
and crashes:

| Theorem | Property | Assumes |
|---|---|---|
| `ReadersOnlyRead` | (`Spec` of `PriorityDecision`) | |
| `ListsCoverHistory` | `ListCoversHistory` | |
| `SummariesAddUp` | `SummaryAddsUp` | |
| `PagesSkipNoDate` | `AuditPagesSkipNoDate` (dates, not entries) | the log never has more entries than the largest int |

`ReaderSteps` says that a step is one of the requests, which leaves every report as it
is, or a read of one reader, which leaves everything else as it is; so each invariant is
kept by the tables growing on one side and by the next query on the other, and
`ReadersOnlyRead` brings in the service's own invariants. `ListsHold`: a row that was
read is one the decision has had, whose revision says what it says (`WasRow`); revisions
are only added, so it stays one until they are read. `SummariesHold`: a number that was
read is at most the entries of now that it counts, and the groups are a partition of the
entries (`EntriesAddUp`), so they are at most the groups once those are counted.
`PagesHold`: for each entry that was in the log when the reader began, an entry of its
date was seen, or at least as many entries are newer than it (`Newer`) as stand on the
pages that were read. A new entry only adds to those that are newer (`DatesStep`). A
page that shows no entry of the date begins among the newer ones, whatever the order, so
it is full and as many newer ones stand on it (`PagePassed`); a page that is not full
has therefore shown one, or there was nothing left to show. Which entry of a date is
shown is up to the database, in each query anew, so no invariant speaks of single
entries. The product that gives the place of a page may come round; an entry behind it
would then have more entries before it than an int can count, which the assumption
excludes.

`Paging` and `Configuration` hold their own theorems. `PagesAreAsReported`: handler and
repository bound a page size over 100 differently, and the page that is read is still
the one the answer names, as long as the rows before it can be counted in an int.
`BoundsAgree`: the two bounds on the hours of a summary, and on the length of a history,
are one. `TimesArePositive`, `TokensAreUsable`, `RefusalsAreThree` and `LimitsAreUsable`: for
every environment, timeouts and `TOKEN_TTL` are positive; a token lives less than a second
shorter than `TOKEN_TTL` and no longer, so that every token is accepted when it is issued
exactly if `TOKEN_TTL` is a second or more, which nothing validates (section 5); a start is
refused for its driver, its secret or its request limit only; and the limit of a process
that starts is one the limiter can work with (`Limit` of `RateLimiter`, and the deadline
that `Startup` assumes to end). They are statements about every number and text, so there
is nothing for TLC in them.

Assumptions on constants beside those named above: `RecordSentinels` (`None` and "deleted"
are no statuses, `Blank` no content, `None` no row and no call), `PageAssumption` (`None` is no record of a page and no
number), `SizesAssumption` and `DatesAssumption` (page sizes and dates are integers). They keep apart what the
code keeps apart by type.

Every safety property that a run checks is proved. Only model-checked are the three that
say something must happen: `EveryRequestAnswered`, `EveryChangeAudited` and
`StartsUnlessEmptied`, which rest on fairness, beyond TLAPS. `ReviewIsFinal`,
`ReviewedContentKept`, `RefusalsAreTrue`, `AuditTruthful` and `ImplementsLedger` hold only
for callers that do not guess versions; for the first and the last the runs of section 5
show why.

## 5. Where the code and its documents part

* `overwritten_review`: `Update` and `Transition` check the status of the row they
  read, and write if the row has the version the caller named, which may be ahead
  of the row they read. A request that names version 2 reads the draft of version 1,
  another finalizes it as version 2, and the first writes version 3 over it. The
  README's "final statuses that cannot be overwritten" holds for callers that name
  versions they were shown (`ReviewsAreFinal`), not for all.
* `deleted_review`: `Delete` checks for a draft and deletes by id. A decision that is
  finalized in between is deleted, with no guessing needed.
* `unaudited_review`: the audit entry follows the commit, so a failure or a crash
  between the two leaves a final status without one.
* `off_graph_status`: in the three record services an `Update` that names a version
  ahead of the row it read writes back the status it read, which the graph may not
  allow.

Noted while modelling, and not claimed as divergences: the two queries of a reply
are not one snapshot; a caller may be told 404 after its write when the record is
deleted before the reply; an admin may edit a draft and then finalize it, since only
the preparer is excluded; audit entries of concurrent changes may be in another
order than the changes; request ids come from the client, so they do not identify
an audit entry; the sum of what Redis and the local counters let pass may reach the
limit times the number of processes plus one; the reset time in a 429 is read after
the count and may name the end of the next minute; once all records of one of the
three record tables are deleted, no start gets past its seeding, because the count
sees live rows only and the insertion meets the deleted codes (`StartsUnlessEmptied` says
that nothing else keeps a process from coming up); a list may show a row next to a
revision that is newer than the row (`ListCoversHistory`); the total that comes with a
page of the audit log is older than the page, so who stops reading by it may miss an
entry; the query of the audit log orders by `created_at` alone (`repository/security.go:58`,
where the lists add `id DESC`), so where entries share a date one of them may be on no
page and another on two, also in a log nobody writes to (no document or test of the
repository says otherwise, so this is no divergence and `AuditPagesSkipNoDate` claims dates
only; `id DESC` as a second key would mend it); a `TOKEN_TTL` under a second passes
`Validate`, and as `iat` and `exp` are whole seconds (`service/security.go:45`) its tokens
may be expired when they are issued (`TokensAreUsable`); the spinner of a page goes out
when the first of several calls ends; a tab acts for the user of the token that another
tab has stored, whoever it shows (`PageToldTruth` names the token's user); the login
answers 401 for a database that fails as for a wrong password; the role in a token would
outlive a change of the user's role, but no code changes one.

## 6. Not modelled, and the plan

Left out for good: rendering, search and filters, logging, headers, panics, formats,
password hashing and signatures, the readings without a state of their own (health,
overview, session, runtime), containers. A COMMIT whose answer is lost is not a
separate action: for the state it is a commit followed by a crash, for the caller
an internal error, and no property speaks of what an internal error means.

The plan, in order, with what is done marked:

1. done: `PriorityDecision`, its ledger and refinement, its runs.
2. done: proofs of its safety and of the refinement.
3. done: `DomainRecord`, `RecordServices`, `RecordLifecycle`.
4. done: `RateLimiter`.
5. done: `DomainRecordProofs`.
6. done: `RateLimiterProofs`.
7. done: `Startup`, its run and `StartupProofs`.
8. done: `Api`, the gates and answers of every route, and `Workbench`.
9. done: `Reports`, `Paging` and `Configuration`.
10. done: `WorkbenchProofs`.
11. done: `ReportsProofs`, and the proofs on audit entries and on what callers are told.
12. done: `FixedWindow`, the abstract specification of the rate limiter, and its refinement.

Nothing of the plan is left.
