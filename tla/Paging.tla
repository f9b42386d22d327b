------------------------------- MODULE Paging -------------------------------
(* The numbers callers send with a request for a report, as each layer on    *)
(* their way bounds them: the handler, the service and the repository bound  *)
(* them again, and what is told to the caller is the handler's.             *)
EXTENDS Integers, TLAPS

CONSTANT MaxInt     \* the largest int

ASSUME MaxIntAssumption == MaxInt \in Nat /\ MaxInt >= 100

\* The page a caller asks for, as the handler takes it and names it in its answer.
bindPage(query) ==
    [page     |-> IF query.page < 1 THEN 1 ELSE query.page,
     pageSize |-> IF query.pageSize < 1 \/ query.pageSize > 100 THEN 20 ELSE query.pageSize]

\* The page that the repository reads.
normalizePage(query) ==
    [page     |-> IF query.page < 1 THEN 1 ELSE query.page,
     pageSize |-> IF query.pageSize < 1 THEN 20
                  ELSE IF query.pageSize > 100 THEN 100 ELSE query.pageSize]

\* An int that is too large comes round.
Wrapped(n) ==
    IF n <= MaxInt THEN n ELSE ((n + MaxInt + 1) % (2 * MaxInt + 2)) - (MaxInt + 1)

\* Rows skipped before the page; of a negative number, none.
Offset(query) ==
    LET product == Wrapped((query.page - 1) * query.pageSize)
    IN  IF product > 0 THEN product ELSE 0

\* Hours of the audit summary: of the query, and of the service.
Window(hours) == IF hours < 1 THEN 24 ELSE IF hours > 24 * 90 THEN 24 * 90 ELSE hours

AuditSummaryWindow(hours) == IF hours < 1 THEN 24 ELSE IF hours > 90 * 24 THEN 90 * 24 ELSE hours

\* Entries of the history of an entity: of the query, and of the repository.
NormalizedLimit(limit) == IF limit < 1 THEN 20 ELSE IF limit > 100 THEN 100 ELSE limit

EntityHistoryLimit(limit) == IF limit < 1 THEN 20 ELSE IF limit > 100 THEN 100 ELSE limit

Query == [page : {n \in Int : n <= MaxInt}, pageSize : {n \in Int : n <= MaxInt}]

\* Whatever a caller asks for, the page that is read is the page that the answer
\* names, and it is not empty by its size, though handler and repository bound sizes
\* over 100 differently (handler/system.go:149, repository/base.go:102); and the rows
\* before it are skipped, as long as their number fits an int: beyond that, another
\* page is read than the answer names.
THEOREM PagesAreAsReported ==
    ASSUME NEW query \in Query
    PROVE  LET told == bindPage(query)
           IN  /\ normalizePage(told) = told
               /\ told.page >= 1 /\ told.pageSize \in 1 .. 100
               /\ (told.page - 1) * 100 <= MaxInt =>
                      Offset(told) = (told.page - 1) * told.pageSize
<1>. DEFINE told == bindPage(query)
<1>1. query.page \in Int /\ query.pageSize \in Int
  BY DEF Query
<1>2. told.page \in Int /\ told.page >= 1 /\ told.pageSize \in 1 .. 100
  BY <1>1 DEF bindPage
<1>3. normalizePage(told) = told
  <2>1. told = [page |-> told.page, pageSize |-> told.pageSize]
    BY DEF bindPage
  <2>. QED  BY <1>2, <2>1 DEF normalizePage
<1>4. ASSUME (told.page - 1) * 100 <= MaxInt
      PROVE  Offset(told) = (told.page - 1) * told.pageSize
  <2>. DEFINE p == told.page - 1  s == told.pageSize
  <2>1. p \in Nat /\ s \in Nat /\ s <= 100
    BY <1>2
  <2>2. \A a, b, c \in Nat : b <= c => a * b \in Nat /\ a * b <= a * c
    OBVIOUS
  <2>3. p * s \in Nat /\ p * s <= p * 100
    BY <2>1, <2>2
  <2>4. p * s <= MaxInt
    <3>1. p * 100 \in Int /\ MaxInt \in Int
      BY <2>1, MaxIntAssumption
    <3>. HIDE DEF p, s
    <3>. QED  BY <1>4, <2>3, <3>1 DEF p
  <2>5. Wrapped(p * s) = p * s
    BY <2>4 DEF Wrapped
  <2>. QED  BY <2>3, <2>5 DEF Offset
<1>. QED  BY <1>2, <1>3, <1>4

\* And so for the hours of a summary and the entries of a history: the second bound
\* never changes what the first one gave (dto/common.go:35, service/security.go:79).
THEOREM BoundsAgree ==
    ASSUME NEW n \in Int
    PROVE  /\ AuditSummaryWindow(Window(n)) = Window(n) /\ Window(n) \in 1 .. 2160
           /\ EntityHistoryLimit(NormalizedLimit(n)) = NormalizedLimit(n)
           /\ NormalizedLimit(n) \in 1 .. 100
BY DEF AuditSummaryWindow, Window, EntityHistoryLimit, NormalizedLimit

=============================================================================
