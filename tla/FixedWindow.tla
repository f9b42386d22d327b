----------------------------- MODULE FixedWindow -----------------------------
(***************************************************************************)
(* What the rate limiter promises, without buckets, cleanup or expiry: a    *)
(* book in which every request that was judged is entered under its counter, *)
(* key and minute, and is kept there for ever.  A request passes if no more *)
(* than Limit are entered like it, itself included, and is refused if more  *)
(* are.  What a process entered is lost when it restarts, and where a       *)
(* retried call moved a Redis counter twice a request may be refused early; *)
(* nothing makes one pass that should not.                                 *)
(***************************************************************************)
EXTENDS Naturals, FiniteSets

CONSTANTS Requests, Processes, Keys, Limit

Counters == {"redis"} \cup Processes

VARIABLES
    minute,
    book,       \* the entries
    passed,     \* requests let through
    refused,    \* requests told 429
    doubled     \* minutes and keys that Redis may have counted too high

wvars == <<minute, book, passed, refused, doubled>>

Entry(r, counter, k, m) == [key |-> k, counter |-> counter, request |-> r, minute |-> m]

EnteredLike(counter, k, m) == {r \in Requests : Entry(r, counter, k, m) \in book}

\* Redis may still count under the minute in which the request came.
Counting(m) == m <= minute /\ minute <= m + 1

WindowInit ==
    /\ minute = 0
    /\ book = {} /\ passed = {} /\ refused = {} /\ doubled = {}

Enter(r, counter, k, m) ==
    /\ Counting(m) /\ (counter # "redis" => m = minute)
    /\ book' = book \cup {Entry(r, counter, k, m)}

Pass(r) ==
    /\ r \notin passed \cup refused
    /\ passed' = passed \cup {r}
    /\ UNCHANGED <<minute, refused, doubled>>
    /\ \E counter \in Counters, k \in Keys, m \in 0 .. minute :
          /\ Enter(r, counter, k, m)
          /\ Cardinality(EnteredLike(counter, k, m)) < Limit

Refuse(r) ==
    /\ r \notin passed \cup refused
    /\ refused' = refused \cup {r}
    /\ UNCHANGED <<minute, passed, doubled>>
    /\ \E counter \in Counters, k \in Keys, m \in 0 .. minute :
          /\ Enter(r, counter, k, m)
          /\ \/ Cardinality(EnteredLike(counter, k, m)) >= Limit
             \/ counter = "redis" /\ <<m, k>> \in doubled

Double(k, m) ==
    /\ doubled' = doubled \cup {<<m, k>>}
    /\ Counting(m)
    /\ UNCHANGED <<minute, book, passed, refused>>

Forget(p) ==
    /\ book' = {e \in book : e.counter # p}
    /\ UNCHANGED <<minute, passed, refused, doubled>>

NextMinute ==
    /\ minute' = minute + 1
    /\ UNCHANGED <<book, passed, refused, doubled>>

WindowNext ==
    \/ \E r \in Requests : Pass(r) \/ Refuse(r)
    \/ \E k \in Keys, m \in 0 .. minute : Double(k, m)
    \/ \E p \in Processes : Forget(p)
    \/ NextMinute

WindowSpec == WindowInit /\ [][WindowNext]_wvars

=============================================================================
