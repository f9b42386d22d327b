----------------------------- MODULE RateLimiter -----------------------------
(***************************************************************************)
(* The rate limiter of backend/internal/middleware/ratelimit.go: a request  *)
(* is counted under its client and path in a counter of the current minute, *)
(* in Redis if that can be reached and in a map of the serving process      *)
(* otherwise, and is refused when the count exceeds the limit.             *)
(*                                                                         *)
(* The clock counts minutes.  A request reads it when it names its Redis    *)
(* counter, again under the lock of the local map, and the minute may end   *)
(* between the two.  Processes share Redis and one clock.                   *)
(***************************************************************************)
EXTENDS Naturals, FiniteSets

CONSTANTS
    Requests,       \* request ids, each counted once
    Processes,      \* server processes
    Keys,           \* client and path
    Limit,          \* requests allowed for a key in a minute
    CleanupAt,      \* size at which the local map is cleaned up (512)
    LastWindow,     \* bound: the last minute
    Faults,         \* Redis calls fail and are retried, processes restart
    MaxCount,       \* bound: retries stop at this count
    None            \* no value

ASSUME LimiterAssumption ==
    /\ "redis" \notin Processes
    /\ Limit \in Nat
    /\ CleanupAt \in Nat \ {0}
    /\ LastWindow \in Nat
    /\ Faults \in BOOLEAN
    /\ MaxCount \in Nat

Windows == 0 .. LastWindow
Bucket  == [window : Windows, count : Nat]

\* Redis, and the map of each process.
Counters == {"redis"} \cup Processes

Call   == [window : Windows, process : Processes, key : Keys]
Charge == [window : Windows, count : Nat, counter : Counters]

ASSUME LimiterSentinel == None \notin Bucket \cup Call \cup Charge

VARIABLES
    clock,      \* the current minute
    enabled,    \* a Redis client is configured
    shared,     \* Redis: count of each minute and key, 0 when there is none
    local,      \* the map of each process, None where it has no bucket
    stage,      \* where each request is, or its answer
    call,       \* where each request is served, its key and Redis minute
    charge,     \* the counter and count each request was judged by
    retried     \* history: Redis counters that counted a request twice

counts == <<shared, local>>
vars   == <<clock, enabled, shared, local, stage, call, charge, retried>>

InFlight == {"redis", "fallback"}
Decided  == {"passed", "limited", "lost"}

Init ==
    /\ clock = 0
    /\ enabled \in BOOLEAN
    /\ shared = [w \in Windows |-> [k \in Keys |-> 0]]
    /\ local = [p \in Processes |-> [k \in Keys |-> None]]
    /\ stage = [r \in Requests |-> "idle"]
    /\ call = [r \in Requests |-> None]
    /\ charge = [r \in Requests |-> None]
    /\ retried = {}

-----------------------------------------------------------------------------
(* Counting.                                                               *)

Arrive(r, p, k) ==
    /\ stage[r] = "idle"
    /\ call' = [call EXCEPT ![r] = [window |-> clock, process |-> p, key |-> k]]
    /\ stage' = [stage EXCEPT ![r] = IF enabled THEN "redis" ELSE "fallback"]
    /\ UNCHANGED <<clock, enabled, counts, charge, retried>>

Exceeds(count) == count > Limit

\* The request is judged on the count alone.
Charged(r, counter, window, count) ==
    /\ charge' = [charge EXCEPT ![r] =
                    [window |-> window, count |-> count, counter |-> counter]]
    /\ stage' = [stage EXCEPT ![r] = IF Exceeds(count) THEN "limited" ELSE "passed"]

\* Mutant: the count is read and written back by two calls, which others may
\* come between.
ReadThenSet(r) ==
    /\ stage[r] = "redis"
    /\ LET w == call[r].window
           k == call[r].key
       IN  \E seen \in 0 .. shared[w][k] :
              /\ shared' = [shared EXCEPT ![w][k] = seen + 1]
              /\ Charged(r, "redis", w, seen + 1)
    /\ UNCHANGED <<clock, enabled, local, call, retried>>

\* INCR is atomic and answers with the new count.
increment(r) ==
    /\ stage[r] = "redis"
    /\ LET w == call[r].window
           k == call[r].key
       IN  /\ shared' = [shared EXCEPT ![w][k] = shared[w][k] + 1]
           /\ Charged(r, "redis", w, shared[w][k] + 1)
    /\ UNCHANGED <<clock, enabled, local, call, retried>>

\* Mutant: the count of an earlier minute is carried over.
CarriedCount(bucket) == IF bucket # None THEN bucket.count ELSE 0

\* A key without a bucket of this minute starts from zero.
CountBefore(bucket) ==
    IF bucket # None /\ bucket.window = clock THEN bucket.count ELSE 0

\* Mutant: the cleanup is off by one.
LateCleanup(p) ==
    IF Cardinality({k \in Keys : local[p][k] # None}) <= CleanupAt THEN local[p]
    ELSE [k \in Keys |-> IF local[p][k] # None /\ local[p][k].window < clock
                         THEN None ELSE local[p][k]]

\* Mutant: the cleanup drops the buckets of this minute, too.
EagerCleanup(p) ==
    IF Cardinality({k \in Keys : local[p][k] # None}) < CleanupAt THEN local[p]
    ELSE [k \in Keys |-> IF local[p][k] # None /\ local[p][k].window <= clock
                         THEN None ELSE local[p][k]]

\* A full map loses the buckets of earlier minutes.
cleanupLocal(p) ==
    IF Cardinality({k \in Keys : local[p][k] # None}) < CleanupAt THEN local[p]
    ELSE [k \in Keys |-> IF local[p][k] # None /\ local[p][k].window < clock
                         THEN None ELSE local[p][k]]

\* Under the lock: clean up, count, store.
incrementLocal(r) ==
    /\ stage[r] = "fallback"
    /\ LET p == call[r].process
           k == call[r].key
           buckets == cleanupLocal(p)
           count == CountBefore(buckets[k]) + 1
       IN  /\ local' = [local EXCEPT ![p] =
                          [buckets EXCEPT ![k] = [window |-> clock, count |-> count]]]
           /\ Charged(r, p, clock, count)
    /\ UNCHANGED <<clock, enabled, shared, call, retried>>

-----------------------------------------------------------------------------
(* Time and failures.                                                      *)

\* A minute ends.  Redis answers or the client gives up on it within a minute.
Tick ==
    /\ clock < LastWindow
    /\ \A r \in Requests : stage[r] = "redis" => call[r].window = clock
    /\ clock' = clock + 1
    /\ UNCHANGED <<enabled, counts, stage, call, charge, retried>>

\* Two minutes after the last increment, itself at the latest in the next minute.
Outlived(w) == clock >= w + 2

Expire(w, k) ==
    /\ Outlived(w)
    /\ shared[w][k] > 0
    /\ shared' = [shared EXCEPT ![w][k] = 0]
    /\ UNCHANGED <<clock, enabled, local, stage, call, charge, retried>>

\* The increment is done, its answer is lost, and the client tries again.
AnswerLost(r) ==
    /\ Faults
    /\ stage[r] = "redis"
    /\ shared[call[r].window][call[r].key] < MaxCount
    /\ shared' = [shared EXCEPT ![call[r].window][call[r].key] = @ + 1]
    /\ retried' = retried \cup {<<call[r].window, call[r].key>>}
    /\ UNCHANGED <<clock, enabled, local, stage, call, charge>>

\* The client gives up: the caller hung up, or Redis is unreachable.
RedisFails(r) ==
    /\ Faults
    /\ stage[r] = "redis"
    /\ stage' = [stage EXCEPT ![r] = "fallback"]
    /\ UNCHANGED <<clock, enabled, counts, call, charge, retried>>

\* A process starts again with an empty map: its requests are lost, and what it
\* counted is forgotten.
Restart(p) ==
    /\ Faults
    /\ local' = [local EXCEPT ![p] = [k \in Keys |-> None]]
    /\ stage' = [r \in Requests |-> IF stage[r] \in InFlight /\ call[r].process = p
                                    THEN "lost" ELSE stage[r]]
    /\ charge' = [r \in Requests |-> IF charge[r] # None /\ charge[r].counter = p
                                     THEN None ELSE charge[r]]
    /\ UNCHANGED <<clock, enabled, shared, call, retried>>

\* Every request has its answer.
Quiet ==
    /\ \A r \in Requests : stage[r] \in Decided
    /\ UNCHANGED vars

Next ==
    \/ \E r \in Requests :
          \/ \E p \in Processes, k \in Keys : Arrive(r, p, k)
          \/ increment(r) \/ incrementLocal(r)
          \/ AnswerLost(r) \/ RedisFails(r)
    \/ Tick
    \/ \E w \in Windows, k \in Keys : Expire(w, k)
    \/ \E p \in Processes : Restart(p)
    \/ Quiet

Spec == Init /\ [][Next]_vars

-----------------------------------------------------------------------------
(* What the limiter promises.                                              *)

\* The state has its shape, and a request that is counted has a key.
TypeOK ==
    /\ clock \in Windows
    /\ enabled \in BOOLEAN
    /\ shared \in [Windows -> [Keys -> Nat]]
    /\ local \in [Processes -> [Keys -> Bucket \cup {None}]]
    /\ stage \in [Requests -> {"idle"} \cup InFlight \cup Decided]
    /\ call \in [Requests -> Call \cup {None}]
    /\ charge \in [Requests -> Charge \cup {None}]
    /\ retried \subseteq Windows \X Keys
    /\ \A r \in Requests :
          stage[r] \in InFlight \/ charge[r] # None => call[r] \in Call

\* The requests that a counter counted under a key in a minute.
ChargedTo(counter, k, w) ==
    {r \in Requests : /\ charge[r] # None /\ charge[r].counter = counter
                      /\ charge[r].window = w /\ call[r].key = k}

\* No counter lets more than Limit requests of a key pass in a minute: requests on
\* any process while Redis answers, and those of one process while it does not,
\* however the end of the minute, an expiry or a cleanup falls between them.
CounterLimit ==
    \A r \in Requests : stage[r] = "passed" /\ charge[r] # None =>
        LET rivals == ChargedTo(charge[r].counter, call[r].key, charge[r].window)
        IN  Cardinality({s \in rivals : stage[s] = "passed"}) <= Limit

\* A caller is told 429 only if more than Limit requests of its key were counted in
\* that minute, unless a retried call made Redis count one of them twice.
RefusedIsOverLimit ==
    \A r \in Requests :
        stage[r] = "limited" /\ charge[r] # None =>
            \/ Cardinality(ChargedTo(charge[r].counter, call[r].key, charge[r].window)) > Limit
            \/ charge[r].counter = "redis" /\ <<charge[r].window, call[r].key>> \in retried

\* The local map keeps fewer than CleanupAt buckets of minutes that are over for
\* it: its size follows the keys of the newest minute.
StaleBounded ==
    \A p \in Processes :
        LET tracked == {k \in Keys : local[p][k] # None}
            stale == {k \in tracked :
                         \E j \in tracked : local[p][k].window < local[p][j].window}
        IN  Cardinality(stale) < CleanupAt

-----------------------------------------------------------------------------
(* An entry of the book is a request with the key it was counted under and  *)
(* the counter and minute it was charged to.                               *)

EntryOf(r) == [key |-> call[r].key, counter |-> charge[r].counter, request |-> r,
               minute |-> charge[r].window]

Book == {EntryOf(r) : r \in {s \in Requests : charge[s] # None}}

Answered(answer) == {r \in Requests : stage[r] = answer}

Window == INSTANCE FixedWindow WITH
    minute  <- clock,
    book    <- Book,
    passed  <- Answered("passed"),
    refused <- Answered("limited"),
    doubled <- retried

\* Counting in Redis keys that expire and in maps that are cleaned up, from two
\* clocks and across retries, fallbacks and restarts, judges every request as a book
\* that forgets nothing would: no count that is forgotten lets one more pass, and no
\* count that stays too long refuses one too early.
ImplementsWindow == Window!WindowSpec

=============================================================================
