-------------------------- MODULE RateLimiterProofs --------------------------
(***************************************************************************)
(* The limit of the rate limiter, for any number of requests, processes,    *)
(* keys and minutes, any limit and any failures.  A counter hands out each  *)
(* count once in a minute (Numbered), so no more requests pass than there   *)
(* are counts up to the limit; and it leaves none out (Accounted), so that  *)
(* a count over the limit is that many requests.  The local map, tidied at  *)
(* CleanupAt buckets, keeps fewer of the minutes that are over (Tidy).      *)
(***************************************************************************)
EXTENDS RateLimiter, FunctionTheorems, FiniteSetTheorems, TLAPS

\* Two requests that were counted together.
Together(r, s) ==
    /\ charge[r] # None /\ charge[s] # None
    /\ charge[r].counter = charge[s].counter
    /\ charge[r].window = charge[s].window
    /\ call[r].key = call[s].key

\* A count handed out in the current minute (or the one before, in Redis) is in the
\* counter still, so that the next one is larger.
Kept(r) ==
    LET w == charge[r].window
        k == call[r].key
        p == charge[r].counter
    IN  /\ w <= clock
        /\ charge[r].count >= 1
        /\ p = "redis" /\ ~Outlived(w) => charge[r].count <= shared[w][k]
        /\ p # "redis" /\ w = clock =>
              /\ local[p][k] # None
              /\ local[p][k].window = clock
              /\ charge[r].count <= local[p][k].count

Numbered ==
    /\ \A r \in Requests : charge[r] # None => Kept(r)
    /\ \A r, s \in Requests : Together(r, s) /\ charge[r].count = charge[s].count => r = s
    /\ \A r \in Requests : stage[r] = "redis" =>
          call[r].window <= clock /\ clock <= call[r].window + 1
    /\ \A r \in Requests : stage[r] \in {"idle"} \cup InFlight => charge[r] = None
    /\ \A r \in Requests : stage[r] = "passed" /\ charge[r] # None =>
          ~Exceeds(charge[r].count)

IInv == TypeOK /\ Numbered

-----------------------------------------------------------------------------
(* The shape of the state.                                                 *)

\* The initial state has its shape.
LEMMA TypeInit == Init => TypeOK
BY LimiterAssumption DEF Init, TypeOK, Windows, InFlight, Decided

\* The cleanup leaves buckets, and all those of the current minute.
LEMMA CleanupType ==
    ASSUME TypeOK, NEW p \in Processes
    PROVE  /\ cleanupLocal(p) \in [Keys -> Bucket \cup {None}]
           /\ \A k \in Keys : local[p][k] # None /\ local[p][k].window = clock
                 => cleanupLocal(p)[k] = local[p][k]
<1>1. local[p] \in [Keys -> Bucket \cup {None}]
  BY DEF TypeOK
<1>2. \A k \in Keys : local[p][k] # None => local[p][k].window \in Nat
  BY <1>1 DEF Bucket, Windows
<1>3. clock \in Nat
  BY DEF TypeOK, Windows
<1>. QED  BY <1>1, <1>2, <1>3 DEF cleanupLocal

\* The count a bucket continues from.
LEMMA CountBeforeType ==
    ASSUME TypeOK, NEW b \in Bucket \cup {None}
    PROVE  CountBefore(b) \in Nat
BY DEF CountBefore, Bucket

\* Every step keeps the shape.
LEMMA TypeStep ==
    ASSUME TypeOK, [Next]_vars
    PROVE  TypeOK'
<1>. USE DEF Windows
<1>1. CASE UNCHANGED vars
  BY <1>1 DEF vars, counts, TypeOK
<1>2. ASSUME NEW r \in Requests, NEW p \in Processes, NEW k \in Keys, Arrive(r, p, k)
      PROVE  TypeOK'
  <2>1. [process |-> p, key |-> k, window |-> clock] \in Call
    BY DEF TypeOK, Call
  <2>2. call' \in [Requests -> Call \cup {None}] /\ \A s \in Requests :
            s # r => call'[s] = call[s] /\ stage'[s] = stage[s]
    BY <1>2, <2>1 DEF Arrive, TypeOK
  <2>3. call'[r] \in Call
    BY <1>2, <2>1 DEF Arrive, TypeOK
  <2>4. stage' \in [Requests -> {"idle"} \cup InFlight \cup Decided]
    BY <1>2 DEF Arrive, TypeOK, InFlight
  <2>. QED  BY <1>2, <2>2, <2>3, <2>4 DEF Arrive, TypeOK, counts
<1>3. ASSUME NEW r \in Requests, increment(r)
      PROVE  TypeOK'
  <2>. DEFINE w == call[r].window
              k == call[r].key
              n == shared[w][k]
  <2>1. w \in Windows /\ k \in Keys /\ call[r] \in Call
    BY <1>3 DEF increment, TypeOK, InFlight, Call
  <2>2. n \in Nat
    BY <2>1 DEF TypeOK
  <2>3. shared' \in [Windows -> [Keys -> Nat]]
    <3>1. shared' = [shared EXCEPT ![w][k] = n + 1]
      BY <1>3 DEF increment
    <3>. QED  BY <2>1, <2>2, <3>1 DEF TypeOK
  <2>4. [counter |-> "redis", window |-> w, count |-> n + 1] \in Charge
    BY <2>1, <2>2 DEF Charge, Counters
  <2>5. charge' \in [Requests -> Charge \cup {None}]
        /\ \A s \in Requests : s # r => charge'[s] = charge[s] /\ stage'[s] = stage[s]
    BY <1>3, <2>4 DEF increment, Charged, TypeOK
  <2>6. stage' \in [Requests -> {"idle"} \cup InFlight \cup Decided]
    BY <1>3 DEF increment, Charged, TypeOK, Decided
  <2>. QED  BY <1>3, <2>1, <2>3, <2>5, <2>6 DEF increment, TypeOK
<1>4. ASSUME NEW r \in Requests, incrementLocal(r)
      PROVE  TypeOK'
  <2>. DEFINE p == call[r].process
              k == call[r].key
              buckets == cleanupLocal(p)
              n == CountBefore(buckets[k]) + 1
  <2>1. p \in Processes /\ k \in Keys /\ call[r] \in Call
    BY <1>4 DEF incrementLocal, TypeOK, InFlight, Call
  <2>2. buckets \in [Keys -> Bucket \cup {None}]
    BY <2>1, CleanupType
  <2>3. n \in Nat
    BY <2>1, <2>2, CountBeforeType
  <2>4. /\ local' = [local EXCEPT ![p] =
                       [buckets EXCEPT ![k] = [window |-> clock, count |-> n]]]
        /\ charge' = [charge EXCEPT ![r] = [counter |-> p, window |-> clock, count |-> n]]
        /\ stage' = [stage EXCEPT ![r] = IF Exceeds(n) THEN "limited" ELSE "passed"]
        /\ UNCHANGED <<clock, enabled, shared, call, retried>>
    BY <1>4 DEF incrementLocal, Charged
  <2>5. [window |-> clock, count |-> n] \in Bucket
    BY <2>3 DEF TypeOK, Bucket
  <2>6. [counter |-> p, window |-> clock, count |-> n] \in Charge
    BY <2>1, <2>3 DEF TypeOK, Charge, Counters
  <2>. HIDE DEF buckets, n
  <2>7. local' \in [Processes -> [Keys -> Bucket \cup {None}]]
    BY <2>1, <2>2, <2>4, <2>5 DEF TypeOK
  <2>8. charge' \in [Requests -> Charge \cup {None}]
        /\ \A s \in Requests : s # r => charge'[s] = charge[s] /\ stage'[s] = stage[s]
    BY <2>4, <2>6 DEF TypeOK
  <2>9. stage' \in [Requests -> {"idle"} \cup InFlight \cup Decided]
    BY <2>4 DEF TypeOK, Decided
  <2>. QED  BY <2>1, <2>4, <2>7, <2>8, <2>9 DEF TypeOK
<1>5. CASE Tick
  BY <1>5, LimiterAssumption DEF Tick, TypeOK, counts
<1>6. ASSUME NEW w \in Windows, NEW k \in Keys, Expire(w, k)
      PROVE  TypeOK'
  <2>1. shared' \in [Windows -> [Keys -> Nat]]
    BY <1>6 DEF Expire, TypeOK
  <2>. QED  BY <1>6, <2>1 DEF Expire, TypeOK
<1>7. ASSUME NEW r \in Requests, AnswerLost(r)
      PROVE  TypeOK'
  <2>1. call[r].window \in Windows /\ call[r].key \in Keys
    BY <1>7 DEF AnswerLost, TypeOK, InFlight, Call
  <2>2. shared' \in [Windows -> [Keys -> Nat]]
    BY <1>7, <2>1 DEF AnswerLost, TypeOK
  <2>3. retried' \subseteq Windows \X Keys
    BY <1>7, <2>1 DEF AnswerLost, TypeOK
  <2>. QED  BY <1>7, <2>2, <2>3 DEF AnswerLost, TypeOK
<1>8. ASSUME NEW r \in Requests, RedisFails(r)
      PROVE  TypeOK'
  BY <1>8 DEF RedisFails, TypeOK, InFlight, counts
<1>9. ASSUME NEW p \in Processes, Restart(p)
      PROVE  TypeOK'
  <2>1. local' \in [Processes -> [Keys -> Bucket \cup {None}]]
    BY <1>9 DEF Restart, TypeOK
  <2>2. stage' \in [Requests -> {"idle"} \cup InFlight \cup Decided]
    BY <1>9 DEF Restart, TypeOK, Decided
  <2>3. charge' \in [Requests -> Charge \cup {None}]
    BY <1>9 DEF Restart, TypeOK
  <2>4. \A r \in Requests : stage'[r] \in InFlight \/ charge'[r] # None => call'[r] \in Call
    BY <1>9 DEF Restart, TypeOK, InFlight
  <2>. QED  BY <1>9, <2>1, <2>2, <2>3, <2>4 DEF Restart, TypeOK
<1>10. CASE Quiet
  BY <1>10, <1>1 DEF Quiet
<1>. QED
  BY <1>1, <1>2, <1>3, <1>4, <1>5, <1>6, <1>7, <1>8, <1>9, <1>10 DEF Next

\* The state of the limiter always has its shape.
THEOREM LimiterTypeCorrect == Spec => []TypeOK
<1>. QED  BY TypeInit, TypeStep, PTL DEF Spec

-----------------------------------------------------------------------------
(* A counter never hands out a count twice in a minute.                    *)

\* At first nothing is counted.
LEMMA NumberedInit == Init => Numbered
BY DEF Init, Numbered, Together

\* What a charge holds.
LEMMA ChargeType ==
    ASSUME TypeOK, NEW r \in Requests, charge[r] # None
    PROVE  /\ charge[r] \in Charge /\ charge[r].count \in Nat
           /\ charge[r].window \in Windows
           /\ charge[r].counter = "redis" \/ charge[r].counter \in Processes
           /\ call[r] \in Call /\ call[r].key \in Keys
<1>1. charge[r] \in Charge /\ call[r] \in Call
  BY DEF TypeOK
<1>. QED  BY <1>1 DEF Charge, Counters, Call

\* A charge with a count above all those of its counter keeps the counts apart.
LEMMA NewCharge ==
    ASSUME Numbered, NEW r \in Requests, NEW c \in Charge,
           charge[r] = None,
           charge' = [charge EXCEPT ![r] = c], charge \in [Requests -> Charge \cup {None}],
           UNCHANGED call,
           \A s \in Requests :
              /\ charge[s] # None /\ charge[s].counter = c.counter
              /\ charge[s].window = c.window /\ call[s].key = call[r].key
              => charge[s].count < c.count
    PROVE  \A s, t \in Requests :
              Together(s, t)' /\ charge'[s].count = charge'[t].count => s = t
<1>1. charge'[r] = c /\ \A s \in Requests : s # r => charge'[s] = charge[s]
  OBVIOUS
<1>2. c.count \in Nat
  BY DEF Charge
<1>3. ASSUME NEW s \in Requests, s # r, Together(s, r)' \/ Together(r, s)'
      PROVE  charge'[s].count # charge'[r].count
  BY <1>1, <1>2, <1>3 DEF Together, Charge
<1>4. ASSUME NEW s \in Requests, NEW t \in Requests, s # r, t # r, Together(s, t)',
             charge'[s].count = charge'[t].count
      PROVE  s = t
  BY <1>1, <1>4 DEF Together, Numbered
<1>. QED  BY <1>3, <1>4

\* A step that hands out no count keeps them apart.
LEMMA SameCharges ==
    ASSUME Numbered,
           \A r \in Requests : charge'[r] # None =>
              charge'[r] = charge[r] /\ call'[r] = call[r]
    PROVE  \A r, s \in Requests :
              Together(r, s)' /\ charge'[r].count = charge'[s].count => r = s
BY DEF Numbered, Together

\* A request arrives: it has no count yet.
LEMMA ArriveNumbered ==
    ASSUME TypeOK, Numbered, NEW r \in Requests, NEW p \in Processes, NEW k \in Keys,
           Arrive(r, p, k)
    PROVE  Numbered'
<1>1. charge[r] = None /\ clock \in Nat
  BY DEF Arrive, Numbered, TypeOK, Windows
<1>2. /\ UNCHANGED <<clock, shared, local, charge>>
      /\ \A s \in Requests : s # r => call'[s] = call[s] /\ stage'[s] = stage[s]
      /\ call'[r].window = clock
      /\ stage'[r] \in InFlight
  BY DEF Arrive, TypeOK, counts, InFlight
<1>3. \A s \in Requests : charge'[s] # None => charge'[s] = charge[s] /\ call'[s] = call[s]
  BY <1>1, <1>2
<1>4. \A s \in Requests : charge'[s] # None => Kept(s)'
  <2>. SUFFICES ASSUME NEW s \in Requests, charge'[s] # None PROVE Kept(s)'
    OBVIOUS
  <2>1. Kept(s) /\ call'[s] = call[s] /\ charge'[s] = charge[s]
    BY <1>3 DEF Numbered
  <2>. QED  BY <1>2, <2>1 DEF Kept, Outlived
<1>5. \A s \in Requests : stage'[s] = "redis" =>
          call'[s].window <= clock' /\ clock' <= call'[s].window + 1
  BY <1>1, <1>2 DEF Numbered
<1>6. \A s \in Requests : stage'[s] \in {"idle"} \cup InFlight => charge'[s] = None
  BY <1>1, <1>2 DEF Numbered
<1>7. \A s \in Requests : stage'[s] = "passed" /\ charge'[s] # None => ~Exceeds(charge'[s].count)
  BY <1>1, <1>2 DEF Numbered
<1>. QED  BY <1>3, <1>4, <1>5, <1>6, <1>7, SameCharges DEF Numbered, Exceeds

\* A charge is kept while its Redis counter does not fall below it and the maps and the
\* minute stay.
LEMMA KeptOn ==
    ASSUME NEW s \in Requests, Kept(s), charge'[s] = charge[s], call'[s] = call[s],
           UNCHANGED <<clock, local>>,
           charge[s].count \in Nat,
           LET x == charge[s].window
               j == call[s].key
           IN  ~Outlived(x) => /\ shared[x][j] \in Nat /\ shared'[x][j] \in Nat
                               /\ shared[x][j] <= shared'[x][j]
    PROVE  Kept(s)'
<1>. DEFINE x == charge[s].window
            j == call[s].key
            p == charge[s].counter
<1>1. x <= clock /\ charge[s].count >= 1
  BY DEF Kept
<1>2. Outlived(x)' = Outlived(x)
  BY DEF Outlived
<1>3. p = "redis" /\ ~Outlived(x) => charge[s].count <= shared'[x][j]
  <2>. SUFFICES ASSUME p = "redis", ~Outlived(x) PROVE charge[s].count <= shared'[x][j]
    OBVIOUS
  <2>1. charge[s].count <= shared[x][j]
    BY DEF Kept
  <2>. QED  BY <2>1
<1>4. p # "redis" /\ x = clock =>
          local[p][j] # None /\ local[p][j].window = clock /\ charge[s].count <= local[p][j].count
  BY DEF Kept
<1>. QED  BY <1>1, <1>2, <1>3, <1>4 DEF Kept

\* A request is counted in Redis: no counter it could name has expired.
LEMMA IncrementNumbered ==
    ASSUME TypeOK, Numbered, NEW r \in Requests, increment(r)
    PROVE  Numbered'
<1>. DEFINE w == call[r].window
            k == call[r].key
            n == shared[w][k]
            c == [counter |-> "redis", window |-> w, count |-> n + 1]
<1>1. w \in Windows /\ k \in Keys /\ w \in Nat
  BY DEF increment, TypeOK, InFlight, Call, Windows
<1>2. n \in Nat /\ clock \in Nat
  BY <1>1 DEF TypeOK, Windows
<1>3. c \in Charge /\ c.count = n + 1 /\ c.window = w /\ c.counter = "redis"
  BY <1>1, <1>2 DEF Charge, Counters
<1>4. charge[r] = None /\ w <= clock /\ clock <= w + 1
  BY DEF increment, Numbered, InFlight
<1>5. ~Outlived(w)
  BY <1>1, <1>2, <1>4 DEF Outlived
<1>6. /\ charge' = [charge EXCEPT ![r] = c]
      /\ stage' = [stage EXCEPT ![r] = IF Exceeds(n + 1) THEN "limited" ELSE "passed"]
      /\ shared' = [shared EXCEPT ![w][k] = n + 1]
      /\ UNCHANGED <<clock, local, call>>
  BY DEF increment, Charged
<1>7. charge \in [Requests -> Charge \cup {None}] /\ stage \in [Requests -> {"idle"} \cup InFlight \cup Decided]
  BY DEF TypeOK
<1>8. /\ shared'[w][k] = n + 1
      /\ \A x \in Windows, j \in Keys : <<x, j>> # <<w, k>> => shared'[x][j] = shared[x][j]
  BY <1>1, <1>6 DEF TypeOK
<1>9. ASSUME NEW s \in Requests, charge[s] # None, charge[s].counter = "redis",
             charge[s].window = w, call[s].key = k
      PROVE  charge[s].count <= n
  BY <1>5, <1>9 DEF Numbered, Kept
<1>. HIDE DEF c
<1>10. \A s, t \in Requests : Together(s, t)' /\ charge'[s].count = charge'[t].count => s = t
  <2>1. ASSUME NEW s \in Requests,
               charge[s] # None /\ charge[s].counter = c.counter
                  /\ charge[s].window = c.window /\ call[s].key = call[r].key
        PROVE  charge[s].count < c.count
    <3>1. charge[s].count <= n
      BY <1>3, <1>9, <2>1
    <3>2. charge[s].count \in Nat
      BY <2>1, ChargeType
    <3>. QED  BY <1>2, <1>3, <3>1, <3>2
  <2>. QED  BY <1>3, <1>4, <1>6, <1>7, <2>1, NewCharge
<1>11. ASSUME NEW s \in Requests, charge'[s] # None
       PROVE  Kept(s)'
  <2>1. CASE s = r
    <3>1. charge'[s] = c /\ call'[s].key = k
      BY <1>6, <1>7, <2>1
    <3>2. w <= clock' /\ n + 1 >= 1 /\ n + 1 <= shared'[w][k]
      <4>1. w <= clock'
        BY <1>4, <1>6
      <4>2. shared'[w][k] = n + 1
        BY <1>8
      <4>. HIDE DEF n
      <4>. QED  BY <1>2, <4>1, <4>2
    <3>3. /\ charge'[s].window = w /\ charge'[s].count = n + 1
          /\ charge'[s].counter = "redis"
      BY <1>3, <3>1
    <3>. QED  BY <3>1, <3>2, <3>3 DEF Kept
  <2>2. CASE s # r
    <3>1. charge'[s] = charge[s] /\ call'[s] = call[s] /\ charge[s] # None
      BY <1>6, <1>7, <1>11, <2>2
    <3>2. Kept(s)
      BY <3>1 DEF Numbered
    <3>3. charge[s].window \in Windows /\ call[s].key \in Keys /\ charge[s].count \in Nat
      BY <3>1, ChargeType
    <3>4. shared[charge[s].window][call[s].key] \in Nat
          /\ shared[charge[s].window][call[s].key] <= shared'[charge[s].window][call[s].key]
      <4>1. shared[charge[s].window][call[s].key] \in Nat
        BY <3>3 DEF TypeOK
      <4>2. CASE charge[s].window = w /\ call[s].key = k
        BY <1>2, <1>8, <4>1, <4>2
      <4>3. CASE <<charge[s].window, call[s].key>> # <<w, k>>
        BY <1>8, <3>3, <4>1, <4>3
      <4>. QED  BY <4>1, <4>2, <4>3
    <3>5. shared'[charge[s].window][call[s].key] \in Nat
      BY <1>2, <1>8, <3>3, <3>4
    <3>. QED  BY <1>6, <3>1, <3>2, <3>3, <3>4, <3>5, KeptOn
  <2>. QED  BY <2>1, <2>2
<1>12. \A s \in Requests : stage'[s] = "redis" =>
           call'[s].window <= clock' /\ clock' <= call'[s].window + 1
  BY <1>6, <1>7 DEF Numbered
<1>13. \A s \in Requests : stage'[s] \in {"idle"} \cup InFlight => charge'[s] = None
  BY <1>6, <1>7 DEF Numbered, InFlight
<1>14. \A s \in Requests : stage'[s] = "passed" /\ charge'[s] # None => ~Exceeds(charge'[s].count)
  BY <1>3, <1>6, <1>7 DEF Numbered, Exceeds
<1>. QED  BY <1>10, <1>11, <1>12, <1>13, <1>14 DEF Numbered, Exceeds

\* A request is counted in the local map, which still has the bucket of the minute.
LEMMA IncrementLocalNumbered ==
    ASSUME TypeOK, Numbered, NEW r \in Requests, incrementLocal(r)
    PROVE  Numbered'
<1>. DEFINE p == call[r].process
            k == call[r].key
            buckets == cleanupLocal(p)
            n == CountBefore(buckets[k])
            c == [counter |-> p, window |-> clock, count |-> n + 1]
<1>1. p \in Processes /\ k \in Keys
  BY DEF incrementLocal, TypeOK, InFlight, Call
<1>2. buckets \in [Keys -> Bucket \cup {None}]
      /\ \A j \in Keys : local[p][j] # None /\ local[p][j].window = clock
            => buckets[j] = local[p][j]
  BY <1>1, CleanupType
<1>3. n \in Nat /\ clock \in Windows /\ clock \in Nat
  BY <1>1, <1>2, CountBeforeType DEF TypeOK, Windows
<1>4. c \in Charge /\ c.count = n + 1 /\ c.window = clock /\ c.counter = p
  BY <1>1, <1>3 DEF Charge, Counters
<1>5. p # "redis" /\ charge[r] = None
  BY <1>1, LimiterAssumption DEF incrementLocal, Numbered, InFlight
<1>6. /\ local' = [local EXCEPT ![p] =
                     [buckets EXCEPT ![k] = [window |-> clock, count |-> n + 1]]]
      /\ charge' = [charge EXCEPT ![r] = c]
      /\ stage' = [stage EXCEPT ![r] = IF Exceeds(n + 1) THEN "limited" ELSE "passed"]
      /\ UNCHANGED <<clock, shared, call>>
  BY DEF incrementLocal, Charged
<1>7. charge \in [Requests -> Charge \cup {None}] /\ stage \in [Requests -> {"idle"} \cup InFlight \cup Decided]
      /\ local \in [Processes -> [Keys -> Bucket \cup {None}]]
  BY DEF TypeOK
<1>8. ASSUME NEW s \in Requests, charge[s] # None, charge[s].counter = p,
             charge[s].window = clock, call[s].key = k
      PROVE  charge[s].count <= n
  <2>1. /\ local[p][k] # None /\ local[p][k].window = clock
        /\ charge[s].count <= local[p][k].count
    BY <1>5, <1>8 DEF Numbered, Kept
  <2>2. n = local[p][k].count
    BY <1>1, <1>2, <2>1 DEF CountBefore
  <2>. QED  BY <2>1, <2>2
<1>9. [window |-> clock, count |-> n + 1] # None
  BY <1>3, LimiterSentinel DEF Bucket
<1>. HIDE DEF c, buckets, n
<1>10. /\ local'[p][k] = [window |-> clock, count |-> n + 1]
       /\ \A j \in Keys : j # k => local'[p][j] = buckets[j]
       /\ \A q \in Processes : q # p => local'[q] = local[q]
  BY <1>1, <1>2, <1>6, <1>7
<1>11. \A s, t \in Requests : Together(s, t)' /\ charge'[s].count = charge'[t].count => s = t
  <2>1. ASSUME NEW s \in Requests,
               charge[s] # None /\ charge[s].counter = c.counter
                  /\ charge[s].window = c.window /\ call[s].key = call[r].key
        PROVE  charge[s].count < c.count
    <3>1. charge[s].count <= n
      BY <1>4, <1>8, <2>1
    <3>2. charge[s].count \in Nat
      BY <2>1, ChargeType
    <3>. QED  BY <1>3, <1>4, <3>1, <3>2
  <2>. QED  BY <1>4, <1>5, <1>6, <1>7, <2>1, NewCharge
<1>12. ASSUME NEW s \in Requests, charge'[s] # None
       PROVE  Kept(s)'
  <2>1. CASE s = r
    <3>1. charge'[s] = c /\ call'[s].key = k
      BY <1>6, <1>7, <2>1
    <3>2. local'[p][k] # None /\ local'[p][k].window = clock /\ local'[p][k].count = n + 1
      BY <1>9, <1>10
    <3>3. charge'[s].counter = p /\ charge'[s].window = clock /\ charge'[s].count = n + 1
      BY <1>4, <3>1
    <3>. QED  BY <1>3, <1>5, <1>6, <3>1, <3>2, <3>3 DEF Kept
  <2>2. CASE s # r
    <3>1. charge'[s] = charge[s] /\ call'[s] = call[s] /\ charge[s] # None
      BY <1>6, <1>7, <1>12, <2>2
    <3>2. Kept(s)
      BY <3>1 DEF Numbered
    <3>3. /\ call[s].key \in Keys /\ charge[s].count \in Nat
          /\ charge[s].counter = "redis" \/ charge[s].counter \in Processes
      BY <3>1, ChargeType
    <3>4. ASSUME charge[s].counter # "redis", charge[s].window = clock
          PROVE  /\ local'[charge[s].counter][call[s].key] # None
                 /\ local'[charge[s].counter][call[s].key].window = clock
                 /\ charge[s].count <= local'[charge[s].counter][call[s].key].count
      <4>1. CASE charge[s].counter # p
        BY <1>10, <3>2, <3>3, <3>4, <4>1 DEF Kept
      <4>2. CASE charge[s].counter = p /\ call[s].key # k
        <5>1. local[p][call[s].key] # None /\ local[p][call[s].key].window = clock
              /\ charge[s].count <= local[p][call[s].key].count
          BY <1>5, <3>2, <3>4, <4>2 DEF Kept
        <5>2. local'[p][call[s].key] = local[p][call[s].key]
          BY <1>2, <1>10, <3>3, <4>2, <5>1
        <5>. QED  BY <4>2, <5>1, <5>2
      <4>3. CASE charge[s].counter = p /\ call[s].key = k
        <5>1. charge[s].count <= n
          BY <1>8, <3>1, <3>4, <4>3
        <5>2. local'[p][k] # None /\ local'[p][k].window = clock /\ local'[p][k].count = n + 1
          BY <1>9, <1>10
        <5>. QED  BY <1>3, <3>3, <4>3, <5>1, <5>2
      <4>. QED  BY <4>1, <4>2, <4>3
    <3>. QED  BY <1>6, <3>1, <3>2, <3>4 DEF Kept, Outlived
  <2>. QED  BY <2>1, <2>2
<1>13. \A s \in Requests : stage'[s] = "redis" =>
           call'[s].window <= clock' /\ clock' <= call'[s].window + 1
  BY <1>6, <1>7 DEF Numbered
<1>14. \A s \in Requests : stage'[s] \in {"idle"} \cup InFlight => charge'[s] = None
  BY <1>6, <1>7 DEF Numbered, InFlight
<1>15. \A s \in Requests : stage'[s] = "passed" /\ charge'[s] # None => ~Exceeds(charge'[s].count)
  BY <1>4, <1>6, <1>7 DEF Numbered, Exceeds
<1>. QED  BY <1>11, <1>12, <1>13, <1>14, <1>15 DEF Numbered, Exceeds

\* A minute ends: what was counted is of an earlier one, and a Redis counter lives on.
LEMMA TickNumbered ==
    ASSUME TypeOK, Numbered, Tick
    PROVE  Numbered'
<1>1. /\ clock \in Nat /\ clock' = clock + 1
      /\ UNCHANGED <<shared, local, stage, call, charge>>
  BY DEF Tick, TypeOK, Windows, counts
<1>2. ASSUME NEW s \in Requests, charge'[s] # None
      PROVE  Kept(s)'
  <2>1. Kept(s) /\ charge[s].window \in Nat
    BY <1>1, <1>2, ChargeType DEF Numbered, Windows
  <2>. DEFINE x == charge[s].window
              j == call[s].key
              p == charge[s].counter
  <2>2. x <= clock + 1 /\ x # clock + 1 /\ charge[s].count >= 1
    BY <1>1, <2>1 DEF Kept
  <2>3. ~(clock + 1 >= x + 2) => ~Outlived(x)
    BY <1>1, <2>1 DEF Outlived
  <2>4. p = "redis" /\ ~Outlived(x) => charge[s].count <= shared[x][j]
    BY <2>1 DEF Kept
  <2>. QED  BY <1>1, <2>2, <2>3, <2>4 DEF Kept, Outlived
<1>3. \A s \in Requests : stage'[s] = "redis" =>
          call'[s].window <= clock' /\ clock' <= call'[s].window + 1
  BY <1>1 DEF Tick
<1>. QED  BY <1>1, <1>2, <1>3, SameCharges DEF Numbered, Exceeds

\* Redis on its own: an expired counter is of no minute that is still counted, and a
\* retried call only makes a counter larger.
LEMMA RedisNumbered ==
    ASSUME TypeOK, Numbered, NEW w \in Windows, NEW k \in Keys,
           UNCHANGED <<clock, local, stage, call, charge>>,
           \/ Outlived(w) /\ shared' = [shared EXCEPT ![w][k] = 0]
           \/ shared' = [shared EXCEPT ![w][k] = shared[w][k] + 1]
    PROVE  Numbered'
<1>1. ASSUME NEW s \in Requests, charge'[s] # None
      PROVE  Kept(s)'
  <2>1. Kept(s) /\ charge[s].window \in Windows /\ call[s].key \in Keys
        /\ charge[s].count \in Nat
    BY <1>1, ChargeType DEF Numbered
  <2>. DEFINE x == charge[s].window
              j == call[s].key
  <2>2. shared[x][j] \in Nat
    BY <2>1 DEF TypeOK
  <2>3. ~Outlived(x) => shared'[x][j] = shared[x][j] \/ shared'[x][j] = shared[x][j] + 1
    <3>1. shared \in [Windows -> [Keys -> Nat]]
      BY DEF TypeOK
    <3>2. CASE Outlived(w) /\ shared' = [shared EXCEPT ![w][k] = 0]
      <4>1. x # w => shared'[x] = shared[x]
        BY <2>1, <3>1, <3>2
      <4>. QED  BY <3>2, <4>1
    <3>3. CASE shared' = [shared EXCEPT ![w][k] = shared[w][k] + 1]
      <4>1. x # w \/ j # k => shared'[x][j] = shared[x][j]
        BY <2>1, <3>1, <3>3
      <4>2. x = w /\ j = k => shared'[x][j] = shared[x][j] + 1
        BY <2>1, <3>1, <3>3
      <4>. QED  BY <4>1, <4>2
    <3>. QED  BY <3>2, <3>3
  <2>4. ~Outlived(x) => shared'[x][j] \in Nat /\ shared[x][j] <= shared'[x][j]
    BY <2>2, <2>3
  <2>. QED  BY <1>1, <2>1, <2>2, <2>4, KeptOn
<1>. QED  BY <1>1, SameCharges DEF Numbered, Exceeds

\* A process restarts: its counts are forgotten with its map.
LEMMA RestartNumbered ==
    ASSUME TypeOK, Numbered, NEW p \in Processes, Restart(p)
    PROVE  Numbered'
<1>1. /\ UNCHANGED <<clock, shared, call>>
      /\ \A s \in Requests : charge'[s] = IF charge[s] # None /\ charge[s].counter = p
                                          THEN None ELSE charge[s]
      /\ \A s \in Requests : stage'[s] = stage[s] \/ stage'[s] = "lost"
      /\ \A q \in Processes : q # p => local'[q] = local[q]
  BY DEF Restart, TypeOK
<1>2. ASSUME NEW s \in Requests, charge'[s] # None
      PROVE  Kept(s)'
  <2>1. charge'[s] = charge[s] /\ charge[s] # None /\ charge[s].counter # p
    BY <1>1, <1>2
  <2>2. Kept(s) /\ (charge[s].counter = "redis" \/ charge[s].counter \in Processes)
    BY <2>1, ChargeType DEF Numbered
  <2>. QED  BY <1>1, <2>1, <2>2 DEF Kept, Outlived
<1>3. \A s \in Requests : charge'[s] # None => charge'[s] = charge[s] /\ call'[s] = call[s]
  BY <1>1
<1>4. \A s \in Requests : stage'[s] = "redis" =>
          call'[s].window <= clock' /\ clock' <= call'[s].window + 1
  BY <1>1 DEF Numbered
<1>5. \A s \in Requests : stage'[s] \in {"idle"} \cup InFlight => charge'[s] = None
  BY <1>1 DEF Numbered, InFlight
<1>6. \A s \in Requests : stage'[s] = "passed" /\ charge'[s] # None => ~Exceeds(charge'[s].count)
  BY <1>1 DEF Numbered
<1>. QED  BY <1>2, <1>3, <1>4, <1>5, <1>6, SameCharges DEF Numbered, Exceeds

\* Every step keeps the counts apart.
LEMMA NumberedStep ==
    ASSUME TypeOK, Numbered, [Next]_vars
    PROVE  Numbered'
<1>1. CASE UNCHANGED vars
  BY <1>1 DEF vars, counts, Numbered, Together, Kept, Outlived, Exceeds
<1>2. ASSUME NEW r \in Requests, RedisFails(r)
      PROVE  Numbered'
  <2>0. charge[r] = None
    BY <1>2 DEF RedisFails, Numbered, InFlight
  <2>1. /\ UNCHANGED <<clock, shared, local, call, charge>>
        /\ charge[r] = None
        /\ \A s \in Requests : s # r => stage'[s] = stage[s]
        /\ stage'[r] = "fallback"
    BY <1>2, <2>0 DEF RedisFails, counts, TypeOK
  <2>2. \A s \in Requests : charge'[s] # None => Kept(s)'
    BY <2>1 DEF Numbered, Kept, Outlived
  <2>. QED  BY <2>1, <2>2, SameCharges DEF Numbered, Exceeds
<1>3. ASSUME NEW r \in Requests, AnswerLost(r)
      PROVE  Numbered'
  <2>1. call[r].window \in Windows /\ call[r].key \in Keys
    BY <1>3 DEF AnswerLost, TypeOK, InFlight, Call
  <2>. QED  BY <1>3, <2>1, RedisNumbered DEF AnswerLost
<1>4. ASSUME NEW w \in Windows, NEW k \in Keys, Expire(w, k)
      PROVE  Numbered'
  BY <1>4, RedisNumbered DEF Expire
<1>. QED
  BY <1>1, <1>2, <1>3, <1>4, ArriveNumbered, IncrementNumbered, IncrementLocalNumbered,
     TickNumbered, RestartNumbered DEF Next, Quiet

-----------------------------------------------------------------------------
(* The limit.                                                              *)

\* As many as are told apart by numbers up to n are at most n.
LEMMA AtMostNumbers ==
    ASSUME NEW S, NEW n \in Nat, NEW f \in [S -> 1 .. n],
           \A s, t \in S : f[s] = f[t] => s = t
    PROVE  IsFiniteSet(S) /\ Cardinality(S) \in Nat /\ Cardinality(S) <= n
<1>1. f \in Injection(S, 1 .. n)
  BY DEF Injection, IsInjective
<1>2. IsFiniteSet(1 .. n) /\ Cardinality(1 .. n) = n
  <2>1. 1 \in Int /\ n \in Int
    OBVIOUS
  <2>2. IsFiniteSet(1 .. n) /\ Cardinality(1 .. n) = IF 1 > n THEN 0 ELSE n - 1 + 1
    BY <2>1, FS_Interval
  <2>. QED  BY <2>2
<1>3. IsFiniteSet(S) /\ Cardinality(S) <= n
  BY <1>1, <1>2, FS_Injection
<1>. QED  BY <1>3, FS_CardinalityType

\* A finite set with another element for each number up to n has at least n.
LEMMA AtLeastNumbers ==
    ASSUME NEW S, IsFiniteSet(S), NEW n \in Nat, NEW f \in [1 .. n -> S],
           \A l, m \in 1 .. n : f[l] = f[m] => l = m
    PROVE  Cardinality(S) \in Nat /\ n <= Cardinality(S)
<1>1. f \in Injection(1 .. n, S)
  BY DEF Injection, IsInjective
<1>2. Cardinality(1 .. n) = n
  <2>1. 1 \in Int /\ n \in Int
    OBVIOUS
  <2>2. Cardinality(1 .. n) = IF 1 > n THEN 0 ELSE n - 1 + 1
    BY <2>1, FS_Interval
  <2>. QED  BY <2>2
<1>. QED  BY <1>1, <1>2, FS_Injection, FS_CardinalityType

\* Distinct counts from 1 to Limit are no more than Limit.
LEMMA NumberedLimits == TypeOK /\ Numbered => CounterLimit
<1>. SUFFICES ASSUME TypeOK, Numbered, NEW r \in Requests,
                     stage[r] = "passed", charge[r] # None
              PROVE  Cardinality({s \in ChargedTo(charge[r].counter, call[r].key,
                                                  charge[r].window) : stage[s] = "passed"})
                        <= Limit
  BY DEF CounterLimit
<1>. DEFINE S == {s \in ChargedTo(charge[r].counter, call[r].key, charge[r].window) :
                     stage[s] = "passed"}
            f == [s \in S |-> charge[s].count]
<1>1. Limit \in Nat
  BY LimiterAssumption
<1>2. ASSUME NEW s \in S
      PROVE  f[s] \in 1 .. Limit
  <2>1. s \in Requests /\ charge[s] # None /\ stage[s] = "passed"
    BY DEF ChargedTo
  <2>2. charge[s].count \in Nat
    BY <2>1, ChargeType
  <2>3. charge[s].count >= 1 /\ ~(charge[s].count > Limit)
    BY <2>1 DEF Numbered, Kept, Exceeds
  <2>. QED  BY <1>1, <2>2, <2>3
<1>3. ASSUME NEW s \in S, NEW t \in S, f[s] = f[t]
      PROVE  s = t
  <2>1. s \in Requests /\ t \in Requests /\ Together(s, t)
    BY DEF ChargedTo, Together
  <2>. QED  BY <1>3, <2>1 DEF Numbered
<1>4. f \in [S -> 1 .. Limit] /\ \A s, t \in S : f[s] = f[t] => s = t
  BY <1>2, <1>3
<1>. HIDE DEF f, S
<1>5. Cardinality(S) <= Limit
  BY <1>1, <1>4, AtMostNumbers
<1>. QED  BY <1>5 DEF S

\* No counter lets more than Limit requests of a key pass in a minute, whatever
\* the minute's end, an expiry, a cleanup, a failure or a restart comes between.
THEOREM LimitHolds == Spec => []CounterLimit
<1>1. Init => IInv
  BY TypeInit, NumberedInit DEF IInv
<1>2. IInv /\ [Next]_vars => IInv'
  BY TypeStep, NumberedStep DEF IInv
<1>3. IInv => CounterLimit
  BY NumberedLimits DEF IInv
<1>. QED  BY <1>1, <1>2, <1>3, PTL DEF Spec

\* The requests of a key that passed in a minute, whoever counted them: what a process
\* counted before it restarted is not charged any more.
PassedIn(k, w) ==
    {r \in Requests : /\ stage[r] = "passed" /\ charge[r] # None
                      /\ charge[r].window = w /\ call[r].key = k}

\* What the limit comes to when Redis answers some requests and not others: each
\* process may let as many pass as Redis did, and no more.
LEMMA NumberedTotals ==
    ASSUME TypeOK, Numbered, IsFiniteSet(Processes), NEW k \in Keys, NEW w \in Windows
    PROVE  Cardinality(PassedIn(k, w)) <= (Cardinality(Processes) + 1) * Limit
<1>. DEFINE S == PassedIn(k, w)
            T == Counters \X (1 .. Limit)
            f == [s \in S |-> <<charge[s].counter, charge[s].count>>]
<1>1. Limit \in Nat
  BY LimiterAssumption
<1>2. ASSUME NEW s \in S
      PROVE  f[s] \in T
  <2>1. s \in Requests /\ charge[s] # None /\ stage[s] = "passed"
    BY DEF PassedIn
  <2>2. charge[s].count \in Nat /\ charge[s].counter \in Counters
    BY <2>1, ChargeType DEF Counters
  <2>3. charge[s].count >= 1 /\ ~(charge[s].count > Limit)
    BY <2>1 DEF Numbered, Kept, Exceeds
  <2>. QED  BY <1>1, <2>2, <2>3
<1>3. ASSUME NEW s \in S, NEW t \in S, f[s] = f[t]
      PROVE  s = t
  <2>1. charge[s].counter = charge[t].counter /\ charge[s].count = charge[t].count
    BY <1>3
  <2>2. s \in Requests /\ t \in Requests /\ Together(s, t)
    BY <2>1 DEF PassedIn, Together
  <2>. QED  BY <2>1, <2>2 DEF Numbered
<1>4. f \in Injection(S, T)
  <2>1. f \in [S -> T]
    BY <1>2
  <2>2. \A s, t \in S : f[s] = f[t] => s = t
    BY <1>3
  <2>. HIDE DEF f, S, T
  <2>. QED  BY <2>1, <2>2 DEF Injection, IsInjective
<1>5. IsFiniteSet(1 .. Limit) /\ Cardinality(1 .. Limit) = Limit
  <2>1. 1 \in Int /\ Limit \in Int
    BY <1>1
  <2>2. IsFiniteSet(1 .. Limit)
        /\ Cardinality(1 .. Limit) = IF 1 > Limit THEN 0 ELSE Limit - 1 + 1
    BY <2>1, FS_Interval
  <2>. QED  BY <1>1, <2>2
<1>6. IsFiniteSet(Counters) /\ Cardinality(Counters) = Cardinality(Processes) + 1
  <2>1. Counters = Processes \cup {"redis"} /\ "redis" \notin Processes
    BY LimiterAssumption DEF Counters
  <2>. QED  BY <2>1, FS_AddElement
<1>7. IsFiniteSet(T) /\ Cardinality(T) = (Cardinality(Processes) + 1) * Limit
  <2>1. IsFiniteSet(T) /\ Cardinality(T) = Cardinality(Counters) * Cardinality(1 .. Limit)
    <3>. HIDE DEF f, S
    <3>. QED  BY ONLY <1>5, <1>6, FS_Product DEF T
  <2>. HIDE DEF f, S, T
  <2>. QED  BY ONLY <1>5, <1>6, <2>1
<1>. HIDE DEF f, S, T
<1>8. Cardinality(S) <= Cardinality(T)
  BY <1>4, <1>7, FS_Injection
<1>. QED  BY <1>7, <1>8 DEF S

\* However Redis fails and comes back, no more requests of a key pass in a minute than
\* the limit for Redis and once more for each process, but for those a process let pass
\* before it restarted.
THEOREM TotalIsLimited ==
    ASSUME IsFiniteSet(Processes)
    PROVE  Spec => [](\A k \in Keys, w \in Windows :
                        Cardinality(PassedIn(k, w)) <= (Cardinality(Processes) + 1) * Limit)
<1>1. Init => IInv
  BY TypeInit, NumberedInit DEF IInv
<1>2. IInv /\ [Next]_vars => IInv'
  BY TypeStep, NumberedStep DEF IInv
<1>3. IInv => \A k \in Keys, w \in Windows :
                 Cardinality(PassedIn(k, w)) <= (Cardinality(Processes) + 1) * Limit
  BY NumberedTotals DEF IInv
<1>. QED  BY <1>1, <1>2, <1>3, PTL DEF Spec

-----------------------------------------------------------------------------
(* The size of the local map.                                              *)

\* The keys a process has a bucket for, and those of minutes over for its map.
Tracked(p) == {k \in Keys : local[p][k] # None}
Stale(p)   == {k \in Tracked(p) : \E j \in Tracked(p) : local[p][k].window < local[p][j].window}

\* A map is finite, and no bucket is of a minute to come.
Tidy ==
    \A p \in Processes :
        /\ IsFiniteSet(Tracked(p))
        /\ \A k \in Tracked(p) : local[p][k].window <= clock

\* At first every map is empty.
LEMMA TidyInit == Init => Tidy /\ StaleBounded
<1>. SUFFICES ASSUME Init PROVE Tidy /\ StaleBounded
  OBVIOUS
<1>1. \A p \in Processes : {k \in Keys : local[p][k] # None} = {}
  BY DEF Init
<1>2. IsFiniteSet({}) /\ Cardinality({}) = 0
  BY FS_EmptySet
<1>3. 0 < CleanupAt
  BY LimiterAssumption
<1>4. Tidy
  BY <1>1, <1>2 DEF Tidy, Tracked
<1>5. ASSUME NEW p \in Processes, NEW T, T = {k \in Keys : local[p][k] # None}
      PROVE  Cardinality({k \in T : \E j \in T : local[p][k].window < local[p][j].window})
                < CleanupAt
  <2>1. {k \in T : \E j \in T : local[p][k].window < local[p][j].window} = {}
    BY <1>1, <1>5
  <2>. QED  BY <1>2, <1>3, <2>1
<1>. QED  BY <1>4, <1>5 DEF StaleBounded

\* What counting in the local map leaves: the bucket of the key, and for the other
\* keys what the cleanup left.
LEMMA LocalFacts ==
    ASSUME TypeOK, NEW r \in Requests, incrementLocal(r),
           NEW p, p = call[r].process, NEW k, k = call[r].key,
           NEW n, n = CountBefore(cleanupLocal(p)[k])
    PROVE  /\ p \in Processes /\ k \in Keys /\ n \in Nat
           /\ stage[r] = "fallback"
           /\ charge' = [charge EXCEPT ![r] = [counter |-> p, window |-> clock, count |-> n + 1]]
           /\ \A s \in Requests : s # r => stage'[s] = stage[s]
           /\ stage'[r] = IF Exceeds(n + 1) THEN "limited" ELSE "passed"
           /\ \A q \in Processes : q # p => local'[q] = local[q]
           /\ \A j \in Keys : j # k => local'[p][j] = cleanupLocal(p)[j]
           /\ local'[p][k] # None
           /\ local'[p][k].window = clock
           /\ local'[p][k].count = n + 1
           /\ UNCHANGED <<clock, enabled, shared, call, retried>>
<1>1. p \in Processes /\ k \in Keys
  BY DEF incrementLocal, TypeOK, InFlight, Call
<1>2. cleanupLocal(p) \in [Keys -> Bucket \cup {None}]
  BY <1>1, CleanupType
<1>3. n \in Nat
  BY <1>1, <1>2, CountBeforeType
<1>4. [window |-> clock, count |-> n + 1] # None
  BY <1>3, LimiterSentinel DEF TypeOK, Bucket
<1>5. /\ local' = [local EXCEPT ![p] =
                     [cleanupLocal(p) EXCEPT ![k] = [window |-> clock, count |-> n + 1]]]
      /\ charge' = [charge EXCEPT ![r] = [counter |-> p, window |-> clock, count |-> n + 1]]
      /\ stage' = [stage EXCEPT ![r] = IF Exceeds(n + 1) THEN "limited" ELSE "passed"]
      /\ stage[r] = "fallback"
      /\ UNCHANGED <<clock, enabled, shared, call, retried>>
  BY DEF incrementLocal, Charged
<1>6. local \in [Processes -> [Keys -> Bucket \cup {None}]]
      /\ stage \in [Requests -> {"idle"} \cup InFlight \cup Decided]
  BY DEF TypeOK
<1>. QED  BY <1>1, <1>2, <1>3, <1>4, <1>5, <1>6

\* Counting keeps a map tidy and its stale buckets few: below CleanupAt buckets
\* there are not that many to be stale, and from there on the cleanup leaves none.
LEMMA LocalTidy ==
    ASSUME TypeOK, Tidy, StaleBounded, NEW r \in Requests, incrementLocal(r)
    PROVE  Tidy' /\ StaleBounded'
<1>1. PICK p, k, n : p = call[r].process /\ k = call[r].key
                     /\ n = CountBefore(cleanupLocal(p)[k])
  OBVIOUS
<1>2. /\ p \in Processes /\ k \in Keys
      /\ \A q \in Processes : q # p => local'[q] = local[q]
      /\ \A j \in Keys : j # k => local'[p][j] = cleanupLocal(p)[j]
      /\ local'[p][k].window = clock
      /\ clock' = clock
  BY <1>1, LocalFacts
<1>3. clock \in Nat /\ CleanupAt \in Nat /\ 0 < CleanupAt
  BY LimiterAssumption DEF TypeOK, Windows
<1>4. local[p] \in [Keys -> Bucket \cup {None}]
  BY <1>2 DEF TypeOK
<1>. DEFINE T == {j \in Keys : local[p][j] # None}
            few == Cardinality(T) < CleanupAt
            U == {j \in Keys : local'[p][j] # None}
            V == {j \in U : \E i \in U : local'[p][j].window < local'[p][i].window}
<1>5. IsFiniteSet(T) /\ \A j \in T : local[p][j].window <= clock /\ local[p][j].window \in Nat
  BY <1>2, <1>4 DEF Tidy, Tracked, Bucket, Windows
<1>6. ASSUME NEW j \in U, j # k
      PROVE  /\ j \in T /\ local'[p][j] = local[p][j]
             /\ few \/ local[p][j].window = clock
  <2>1. local'[p][j] = cleanupLocal(p)[j] /\ cleanupLocal(p)[j] # None
    BY <1>2, <1>6
  <2>2. CASE few
    BY <2>1, <2>2 DEF cleanupLocal
  <2>3. CASE ~few
    <3>1. cleanupLocal(p)[j] = IF local[p][j] # None /\ local[p][j].window < clock
                               THEN None ELSE local[p][j]
      BY <2>3 DEF cleanupLocal
    <3>2. j \in T /\ local'[p][j] = local[p][j] /\ ~(local[p][j].window < clock)
      BY <2>1, <3>1
    <3>. QED  BY <1>3, <1>5, <3>2
  <2>. QED  BY <2>2, <2>3
<1>7. U \subseteq T \cup {k}
  BY <1>6
<1>8. IsFiniteSet(T \cup {k})
  BY <1>5, FS_AddElement
<1>9. IsFiniteSet(U)
  BY <1>7, <1>8, FS_Subset
<1>10. \A j \in U : local'[p][j].window <= clock /\ local'[p][j].window \in Nat
  BY <1>2, <1>3, <1>5, <1>6
<1>11. k \notin V
  BY <1>2, <1>3, <1>10
<1>12. Cardinality(V) < CleanupAt
  <2>1. CASE few
    <3>1. V \subseteq T
      BY <1>6, <1>11
    <3>2. Cardinality(V) <= Cardinality(T) /\ Cardinality(V) \in Nat /\ Cardinality(T) \in Nat
      BY <1>5, <3>1, FS_Subset, FS_CardinalityType
    <3>. QED  BY <1>3, <2>1, <3>2
  <2>2. CASE ~few
    <3>1. \A j \in U : local'[p][j].window = clock
      BY <1>2, <1>6, <2>2
    <3>2. V = {}
      BY <1>3, <3>1
    <3>. QED  BY <1>3, <3>2, FS_EmptySet
  <2>. QED  BY <2>1, <2>2
<1>13. Tidy'
  <2>. SUFFICES ASSUME NEW q \in Processes
                PROVE  /\ IsFiniteSet(Tracked(q))'
                       /\ \A j \in Tracked(q)' : local'[q][j].window <= clock'
    BY DEF Tidy
  <2>1. CASE q = p
    BY <1>2, <1>9, <1>10, <2>1 DEF Tracked
  <2>2. CASE q # p
    BY <1>2, <2>2 DEF Tidy, Tracked
  <2>. QED  BY <2>1, <2>2
<1>14. StaleBounded'
  <2>. SUFFICES ASSUME NEW q \in Processes
                PROVE  (Cardinality({j \in {i \in Keys : local[q][i] # None} :
                          \E i \in {h \in Keys : local[q][h] # None} :
                             local[q][j].window < local[q][i].window}) < CleanupAt)'
    BY DEF StaleBounded
  <2>1. CASE q = p
    BY <1>12, <2>1
  <2>2. CASE q # p
    BY <1>2, <2>2 DEF StaleBounded
  <2>. QED  BY <2>1, <2>2
<1>. QED  BY <1>13, <1>14

\* Every step keeps the maps tidy.
LEMMA TidyStep ==
    ASSUME TypeOK, Tidy, StaleBounded, [Next]_vars
    PROVE  Tidy' /\ StaleBounded'
<1>1. CASE local' = local /\ clock \in Nat /\ (clock' = clock \/ clock' = clock + 1)
  <2>1. \A p \in Processes, k \in Keys : local[p][k] # None => local[p][k].window \in Nat
    BY DEF TypeOK, Bucket, Windows
  <2>2. Tidy'
    <3>. SUFFICES ASSUME NEW p \in Processes
                  PROVE  /\ IsFiniteSet(Tracked(p))'
                         /\ \A k \in Tracked(p)' : local'[p][k].window <= clock'
      BY DEF Tidy
    <3>1. Tracked(p)' = Tracked(p)
      BY <1>1 DEF Tracked
    <3>2. IsFiniteSet(Tracked(p)) /\ \A k \in Tracked(p) : local[p][k].window <= clock
      BY DEF Tidy
    <3>3. ASSUME NEW k \in Tracked(p)
          PROVE  local'[p][k].window <= clock'
      <4>1. local[p][k].window \in Nat
        BY <2>1 DEF Tracked
      <4>. QED  BY <1>1, <3>2, <4>1
    <3>. QED  BY <3>1, <3>2, <3>3
  <2>3. StaleBounded'
    BY <1>1 DEF StaleBounded
  <2>. QED  BY <2>2, <2>3
<1>2. clock \in Nat
  BY DEF TypeOK, Windows
<1>3. ASSUME NEW p \in Processes, Restart(p)
      PROVE  Tidy' /\ StaleBounded'
  <2>1. /\ clock' = clock
        /\ local'[p] = [k \in Keys |-> None]
        /\ \A q \in Processes : q # p => local'[q] = local[q]
    BY <1>3 DEF Restart, TypeOK
  <2>2. {k \in Keys : local'[p][k] # None} = {}
    BY <2>1
  <2>3. IsFiniteSet({}) /\ Cardinality({}) = 0
    BY FS_EmptySet
  <2>4. 0 < CleanupAt
    BY LimiterAssumption
  <2>5. Tidy'
    <3>. SUFFICES ASSUME NEW q \in Processes
                  PROVE  /\ IsFiniteSet(Tracked(q))'
                         /\ \A k \in Tracked(q)' : local'[q][k].window <= clock'
      BY DEF Tidy
    <3>1. CASE q = p
      BY <2>2, <2>3, <3>1 DEF Tracked
    <3>2. CASE q # p
      BY <2>1, <3>2 DEF Tidy, Tracked
    <3>. QED  BY <3>1, <3>2
  <2>6. StaleBounded'
    <3>. SUFFICES ASSUME NEW q \in Processes
                  PROVE  (Cardinality({j \in {i \in Keys : local[q][i] # None} :
                            \E i \in {h \in Keys : local[q][h] # None} :
                               local[q][j].window < local[q][i].window}) < CleanupAt)'
      BY DEF StaleBounded
    <3>1. CASE q = p
      <4>1. {j \in {i \in Keys : local'[q][i] # None} :
                \E i \in {h \in Keys : local'[q][h] # None} :
                   local'[q][j].window < local'[q][i].window} = {}
        BY <2>2, <3>1
      <4>. QED  BY <2>3, <2>4, <4>1
    <3>2. CASE q # p
      BY <2>1, <3>2 DEF StaleBounded
    <3>. QED  BY <3>1, <3>2
  <2>. QED  BY <2>5, <2>6
<1>4. ASSUME NEW r \in Requests,
             \/ \E p \in Processes, k \in Keys : Arrive(r, p, k)
             \/ increment(r) \/ AnswerLost(r) \/ RedisFails(r)
      PROVE  Tidy' /\ StaleBounded'
  <2>1. UNCHANGED <<local, clock>>
    BY <1>4 DEF Arrive, increment, AnswerLost, RedisFails, counts
  <2>. QED  BY <1>1, <1>2, <2>1
<1>5. CASE UNCHANGED vars \/ Tick \/ (\E w \in Windows, k \in Keys : Expire(w, k)) \/ Quiet
  <2>1. local' = local /\ (clock' = clock \/ clock' = clock + 1)
    BY <1>5 DEF Tick, Expire, Quiet, vars, counts
  <2>. QED  BY <1>1, <1>2, <2>1
<1>. QED  BY <1>3, <1>4, <1>5, LocalTidy DEF Next

\* The local map never keeps CleanupAt buckets of minutes that are over for it,
\* however its keys, the minutes and the restarts come.
THEOREM StaleIsBounded == Spec => []StaleBounded
<1>1. TypeOK /\ Tidy /\ StaleBounded /\ [Next]_vars => (TypeOK /\ Tidy /\ StaleBounded)'
  BY TypeStep, TidyStep
<1>. QED  BY <1>1, TypeInit, TidyInit, PTL DEF Spec

-----------------------------------------------------------------------------
(* Who is refused.                                                         *)

\* A count was handed out to a request.
HandedOut(counter, k, w, n) ==
    \E s \in Requests : /\ charge[s] # None /\ charge[s].counter = counter
                        /\ charge[s].window = w /\ call[s].key = k
                        /\ charge[s].count = n

\* Redis has counted a request of the key twice.
Twice(w, k) == <<w, k>> \in retried

Counted == {r \in Requests : charge[r] # None}

\* Counts have no gaps: below a count that was handed out, and up to the one a
\* counter stands at, each was handed out to a request.
Accounted ==
    /\ IsFiniteSet(Counted)
    /\ \A r \in Counted :
          \/ charge[r].counter = "redis" /\ Twice(charge[r].window, call[r].key)
          \/ \A n \in 1 .. charge[r].count :
                HandedOut(charge[r].counter, call[r].key, charge[r].window, n)
    /\ \A w \in Windows, k \in Keys :
          \/ Outlived(w) \/ Twice(w, k)
          \/ \A n \in 1 .. shared[w][k] : HandedOut("redis", k, w, n)
    /\ \A p \in Processes, k \in Keys :
          local[p][k] # None /\ local[p][k].window = clock =>
             \A n \in 1 .. local[p][k].count : HandedOut(p, k, clock, n)
    /\ \A r \in Counted : stage[r] = "limited" => Exceeds(charge[r].count)

\* At first every counter stands at zero.
LEMMA AccountedInit == Init => Accounted
<1>. SUFFICES ASSUME Init PROVE Accounted
  OBVIOUS
<1>1. Counted = {}
  BY DEF Init, Counted
<1>2. \A w \in Windows, k \in Keys : shared[w][k] = 0
  BY DEF Init
<1>3. \A p \in Processes, k \in Keys : local[p][k] = None
  BY DEF Init
<1>. QED  BY <1>1, <1>2, <1>3, FS_EmptySet DEF Accounted

\* What was handed out stays so while the requests keep their charges.
LEMMA StillHandedOut ==
    ASSUME NEW c, NEW k, NEW w, NEW n, HandedOut(c, k, w, n),
           \A s \in Requests : charge[s] # None /\ charge[s].counter = c =>
              charge'[s] = charge[s] /\ call'[s] = call[s]
    PROVE  HandedOut(c, k, w, n)'
BY DEF HandedOut

\* A counter at n hands out the next count: none is left out below it, and the
\* requests that are charged stay finitely many.
LEMMA NextCharge ==
    ASSUME NEW r \in Requests, NEW c, NEW w, NEW n \in Nat, Accounted,
           charge[r] = None, charge \in [Requests -> Charge \cup {None}],
           [counter |-> c, window |-> w, count |-> n + 1] \in Charge,
           charge' = [charge EXCEPT ![r] = [counter |-> c, window |-> w, count |-> n + 1]],
           UNCHANGED call, retried \subseteq retried',
           \A s \in Requests : s # r => stage'[s] = stage[s],
           stage'[r] = IF Exceeds(n + 1) THEN "limited" ELSE "passed",
           (c = "redis" /\ Twice(w, call[r].key))
              \/ (\A m \in 1 .. n : HandedOut(c, call[r].key, w, m))
    PROVE  /\ IsFiniteSet(Counted)'
           /\ \A s \in Counted' :
                 \/ charge'[s].counter = "redis" /\ Twice(charge[s].window, call[s].key)'
                 \/ \A m \in 1 .. charge'[s].count :
                       HandedOut(charge[s].counter, call[s].key, charge[s].window, m)'
           /\ \A s \in Counted' : stage'[s] = "limited" => Exceeds(charge'[s].count)
           /\ \A d, k, x, m : HandedOut(d, k, x, m) => HandedOut(d, k, x, m)'
           /\ HandedOut(c, call[r].key, w, n + 1)'
<1>1. /\ charge'[r] = [counter |-> c, window |-> w, count |-> n + 1]
      /\ charge'[r] # None
      /\ \A s \in Requests : s # r => charge'[s] = charge[s]
  BY LimiterSentinel
<1>2. Counted' = Counted \cup {r}
  BY <1>1 DEF Counted
<1>3. IsFiniteSet(Counted)'
  BY <1>2, FS_AddElement DEF Accounted
<1>4. ASSUME NEW d, NEW k, NEW x, NEW m, HandedOut(d, k, x, m)
      PROVE  HandedOut(d, k, x, m)'
  BY <1>1, <1>4, StillHandedOut
<1>5. HandedOut(c, call[r].key, w, n + 1)'
  BY <1>1 DEF HandedOut
<1>6. ASSUME NEW s \in Counted'
      PROVE  /\ \/ charge'[s].counter = "redis" /\ Twice(charge[s].window, call[s].key)'
                \/ \A m \in 1 .. charge'[s].count :
                      HandedOut(charge[s].counter, call[s].key, charge[s].window, m)'
             /\ stage'[s] = "limited" => Exceeds(charge'[s].count)
  <2>1. CASE s = r
    <3>1. charge'[s].counter = c /\ charge'[s].window = w /\ charge'[s].count = n + 1
      BY <1>1, <2>1
    <3>2. CASE c = "redis" /\ Twice(w, call[r].key)
      <4>1. Twice(w, call[r].key)'
        BY <3>2 DEF Twice
      <4>. QED  BY <2>1, <3>1, <3>2, <4>1
    <3>3. CASE \A m \in 1 .. n : HandedOut(c, call[r].key, w, m)
      <4>1. ASSUME NEW m \in 1 .. n + 1
            PROVE  HandedOut(c, call[r].key, w, m)'
        <5>1. m \in 1 .. n \/ m = n + 1
          OBVIOUS
        <5>. QED  BY <1>4, <1>5, <3>3, <5>1
      <4>. QED  BY <2>1, <3>1, <4>1
    <3>. QED  BY <2>1, <3>1, <3>2, <3>3
  <2>2. CASE s # r
    <3>1. s \in Counted /\ charge'[s] = charge[s] /\ stage'[s] = stage[s] /\ call'[s] = call[s]
      BY <1>1, <1>2, <2>2 DEF Counted
    <3>. QED  BY <1>4, <3>1 DEF Accounted, Twice
  <2>. QED  BY <2>1, <2>2
<1>. QED  BY <1>3, <1>4, <1>5, <1>6

\* A request is counted in Redis.
LEMMA IncrementAccounted ==
    ASSUME TypeOK, Numbered, Accounted, NEW r \in Requests, increment(r)
    PROVE  Accounted'
<1>0. PICK w, k, n : w = call[r].window /\ k = call[r].key /\ n = shared[w][k]
  OBVIOUS
<1>1. w \in Windows /\ k \in Keys /\ w \in Nat /\ clock \in Nat
  BY <1>0 DEF increment, TypeOK, InFlight, Call, Windows
<1>2. n \in Nat
  BY <1>0, <1>1 DEF TypeOK
<1>3. charge[r] = None /\ w <= clock /\ clock <= w + 1
  BY <1>0 DEF increment, Numbered, InFlight
<1>4. ~Outlived(w)
  BY <1>1, <1>3 DEF Outlived
<1>5. /\ charge' = [charge EXCEPT ![r] = [counter |-> "redis", window |-> w, count |-> n + 1]]
      /\ stage' = [stage EXCEPT ![r] = IF Exceeds(n + 1) THEN "limited" ELSE "passed"]
      /\ shared' = [shared EXCEPT ![w][k] = n + 1]
      /\ UNCHANGED <<clock, local, call, retried>>
  BY <1>0 DEF increment, Charged
<1>6. charge \in [Requests -> Charge \cup {None}]
      /\ stage \in [Requests -> {"idle"} \cup InFlight \cup Decided]
  BY DEF TypeOK
<1>7. [counter |-> "redis", window |-> w, count |-> n + 1] \in Charge
  BY <1>1, <1>2 DEF Charge, Counters
<1>8. /\ shared'[w][k] = n + 1
      /\ \A x \in Windows, j \in Keys : x # w \/ j # k => shared'[x][j] = shared[x][j]
  BY <1>1, <1>5 DEF TypeOK
<1>9. Twice(w, k) \/ \A m \in 1 .. n : HandedOut("redis", k, w, m)
  BY <1>0, <1>1, <1>4 DEF Accounted
<1>10. /\ IsFiniteSet(Counted)'
       /\ \A s \in Counted' :
             \/ charge'[s].counter = "redis" /\ Twice(charge[s].window, call[s].key)'
             \/ \A m \in 1 .. charge'[s].count :
                   HandedOut(charge[s].counter, call[s].key, charge[s].window, m)'
       /\ \A s \in Counted' : stage'[s] = "limited" => Exceeds(charge'[s].count)
       /\ \A d, j, x, m : HandedOut(d, j, x, m) => HandedOut(d, j, x, m)'
       /\ HandedOut("redis", k, w, n + 1)'
  <2>1. /\ \A s \in Requests : s # r => stage'[s] = stage[s]
        /\ stage'[r] = IF Exceeds(n + 1) THEN "limited" ELSE "passed"
    BY <1>5, <1>6
  <2>. QED  BY <1>0, <1>2, <1>3, <1>5, <1>6, <1>7, <1>9, <2>1, NextCharge
<1>11. ASSUME NEW x \in Windows, NEW j \in Keys, ~Outlived(x)', ~Twice(x, j)'
       PROVE  \A m \in 1 .. shared'[x][j] : HandedOut("redis", j, x, m)'
  <2>1. ~Outlived(x) /\ ~Twice(x, j)
    BY <1>5, <1>11 DEF Outlived, Twice
  <2>2. CASE x = w /\ j = k
    <3>1. ASSUME NEW m \in 1 .. n + 1
          PROVE  HandedOut("redis", k, w, m)'
      <4>1. m \in 1 .. n \/ m = n + 1
        BY <1>2
      <4>. QED  BY <1>9, <1>10, <2>1, <2>2, <4>1
    <3>. QED  BY <1>8, <2>2, <3>1
  <2>3. CASE x # w \/ j # k
    BY <1>8, <1>10, <2>1, <2>3 DEF Accounted
  <2>. QED  BY <2>2, <2>3
<1>12. ASSUME NEW p \in Processes, NEW j \in Keys,
              local'[p][j] # None, local'[p][j].window = clock'
       PROVE  \A m \in 1 .. local'[p][j].count : HandedOut(p, j, clock, m)'
  <2>1. \A m \in 1 .. local'[p][j].count : HandedOut(p, j, clock', m)
    BY <1>5, <1>12 DEF Accounted
  <2>. QED  BY <1>5, <1>10, <2>1
<1>. QED  BY <1>10, <1>11, <1>12 DEF Accounted, Exceeds

\* A request is counted in the local map.
LEMMA IncrementLocalAccounted ==
    ASSUME TypeOK, Numbered, Accounted, NEW r \in Requests, incrementLocal(r)
    PROVE  Accounted'
<1>1. PICK p, k, n : p = call[r].process /\ k = call[r].key
                     /\ n = CountBefore(cleanupLocal(p)[k])
  OBVIOUS
<1>2. /\ p \in Processes /\ k \in Keys /\ n \in Nat
      /\ stage[r] = "fallback"
      /\ charge' = [charge EXCEPT ![r] = [counter |-> p, window |-> clock, count |-> n + 1]]
      /\ \A s \in Requests : s # r => stage'[s] = stage[s]
      /\ stage'[r] = IF Exceeds(n + 1) THEN "limited" ELSE "passed"
      /\ \A q \in Processes : q # p => local'[q] = local[q]
      /\ \A j \in Keys : j # k => local'[p][j] = cleanupLocal(p)[j]
      /\ local'[p][k].count = n + 1
      /\ UNCHANGED <<clock, shared, call, retried>>
  BY <1>1, LocalFacts
<1>3. charge[r] = None /\ charge \in [Requests -> Charge \cup {None}]
  BY <1>2 DEF Numbered, InFlight, TypeOK
<1>4. [counter |-> p, window |-> clock, count |-> n + 1] \in Charge
  BY <1>2 DEF TypeOK, Charge, Counters
<1>5. \A j \in Keys : cleanupLocal(p)[j] # None => cleanupLocal(p)[j] = local[p][j]
  <2>1. local[p] \in [Keys -> Bucket \cup {None}]
    BY <1>2 DEF TypeOK
  <2>. QED  BY <2>1 DEF cleanupLocal
<1>6. \A m \in 1 .. n : HandedOut(p, k, clock, m)
  <2>1. CASE cleanupLocal(p)[k] # None /\ cleanupLocal(p)[k].window = clock
    <3>1. local[p][k] # None /\ local[p][k].window = clock /\ n = local[p][k].count
      BY <1>1, <1>2, <1>5, <2>1 DEF CountBefore
    <3>. QED  BY <1>2, <3>1 DEF Accounted
  <2>2. CASE ~(cleanupLocal(p)[k] # None /\ cleanupLocal(p)[k].window = clock)
    <3>1. n = 0
      BY <1>1, <2>2 DEF CountBefore
    <3>. QED  BY <3>1
  <2>. QED  BY <2>1, <2>2
<1>7. /\ IsFiniteSet(Counted)'
      /\ \A s \in Counted' :
            \/ charge'[s].counter = "redis" /\ Twice(charge[s].window, call[s].key)'
            \/ \A m \in 1 .. charge'[s].count :
                  HandedOut(charge[s].counter, call[s].key, charge[s].window, m)'
      /\ \A s \in Counted' : stage'[s] = "limited" => Exceeds(charge'[s].count)
      /\ \A d, j, x, m : HandedOut(d, j, x, m) => HandedOut(d, j, x, m)'
      /\ HandedOut(p, call[r].key, clock, n + 1)'
  <2>1. PICK c : c = clock
    OBVIOUS
  <2>2. /\ IsFiniteSet(Counted)'
        /\ \A s \in Counted' :
              \/ charge'[s].counter = "redis" /\ Twice(charge[s].window, call[s].key)'
              \/ \A m \in 1 .. charge'[s].count :
                    HandedOut(charge[s].counter, call[s].key, charge[s].window, m)'
        /\ \A s \in Counted' : stage'[s] = "limited" => Exceeds(charge'[s].count)
        /\ \A d, j, x, m : HandedOut(d, j, x, m) => HandedOut(d, j, x, m)'
        /\ HandedOut(p, call[r].key, c, n + 1)'
    BY <1>1, <1>2, <1>3, <1>4, <1>6, <2>1, NextCharge
  <2>. QED  BY <1>2, <2>1, <2>2
<1>8. ASSUME NEW x \in Windows, NEW j \in Keys, ~Outlived(x)', ~Twice(x, j)'
      PROVE  \A m \in 1 .. shared'[x][j] : HandedOut("redis", j, x, m)'
  BY <1>2, <1>7, <1>8 DEF Accounted, Outlived, Twice
<1>9. ASSUME NEW q \in Processes, NEW j \in Keys,
             local'[q][j] # None, local'[q][j].window = clock'
      PROVE  \A m \in 1 .. local'[q][j].count : HandedOut(q, j, clock, m)'
  <2>1. CASE q = p /\ j = k
    <3>1. ASSUME NEW m \in 1 .. n + 1
          PROVE  HandedOut(q, j, clock, m)'
      <4>1. m \in 1 .. n \/ m = n + 1
        BY <1>2
      <4>. QED  BY <1>1, <1>2, <1>6, <1>7, <2>1, <4>1
    <3>. QED  BY <1>2, <2>1, <3>1
  <2>2. CASE q # p \/ j # k
    <3>1. local'[q][j] = local[q][j]
      BY <1>2, <1>5, <1>9, <2>2
    <3>2. \A m \in 1 .. local'[q][j].count : HandedOut(q, j, clock', m)
      BY <1>2, <1>9, <3>1 DEF Accounted
    <3>. QED  BY <1>2, <1>7, <3>2
  <2>. QED  BY <2>1, <2>2
<1>. QED  BY <1>7, <1>8, <1>9 DEF Accounted, Exceeds

\* A step after which the requests and counters stand as they did: a minute may end,
\* Redis may drop a counter or count a request twice.
LEMMA QuietAccounted ==
    ASSUME TypeOK, Tidy, Accounted, retried \subseteq retried',
           UNCHANGED <<local, charge>>,
           \A s \in Requests : charge[s] # None => stage'[s] = stage[s] /\ call'[s] = call[s],
           clock' = clock \/ clock' = clock + 1,
           \A w \in Windows, k \in Keys :
              shared'[w][k] # shared[w][k] => shared'[w][k] = 0 \/ <<w, k>> \in retried'
    PROVE  Accounted'
<1>1. clock \in Nat
  BY DEF TypeOK, Windows
<1>2. Counted' = Counted
  BY DEF Counted
<1>3. \A d, k, w, n : HandedOut(d, k, w, n) => HandedOut(d, k, w, n)'
  BY StillHandedOut
<1>4. ASSUME NEW s \in Counted
      PROVE  /\ \/ charge'[s].counter = "redis" /\ Twice(charge[s].window, call[s].key)'
                \/ \A m \in 1 .. charge'[s].count :
                      HandedOut(charge[s].counter, call[s].key, charge[s].window, m)'
             /\ stage'[s] = "limited" => Exceeds(charge'[s].count)
  <2>1. charge'[s] = charge[s] /\ call'[s] = call[s] /\ stage'[s] = stage[s]
    BY DEF Counted
  <2>. QED  BY <1>3, <2>1 DEF Accounted, Twice
<1>5. ASSUME NEW w \in Windows, NEW k \in Keys, ~Outlived(w)', ~Twice(w, k)'
      PROVE  \A m \in 1 .. shared'[w][k] : HandedOut("redis", k, w, m)'
  <2>1. ~Outlived(w) /\ ~Twice(w, k)
    BY <1>1, <1>5 DEF Outlived, Twice, Windows
  <2>2. shared'[w][k] = shared[w][k] \/ shared'[w][k] = 0
    BY <1>5 DEF Twice
  <2>. QED  BY <1>3, <2>1, <2>2 DEF Accounted
<1>6. ASSUME NEW p \in Processes, NEW k \in Keys,
             local'[p][k] # None, local'[p][k].window = clock'
      PROVE  \A m \in 1 .. local'[p][k].count : HandedOut(p, k, clock, m)'
  <2>0. local'[p][k] = local[p][k] /\ local[p][k] \in Bucket
    BY <1>6 DEF TypeOK
  <2>1. local[p][k].window <= clock /\ local[p][k].window \in Nat
    <3>1. local[p][k] # None
      BY <1>6, <2>0
    <3>2. k \in Tracked(p)
      BY <3>1 DEF Tracked
    <3>3. local[p][k].window <= clock
      BY <3>2 DEF Tidy
    <3>. QED  BY <2>0, <3>3 DEF Bucket, Windows
  <2>2. clock' = clock
    BY <1>1, <1>6, <2>0, <2>1
  <2>3. \A m \in 1 .. local'[p][k].count : HandedOut(p, k, clock', m)
    BY <1>6, <2>0, <2>2 DEF Accounted
  <2>. QED  BY <1>3, <2>3
<1>. QED  BY <1>2, <1>4, <1>5, <1>6 DEF Accounted, Exceeds

\* A process restarts: the charges it made go with its map, those of other counters
\* stay.
LEMMA RestartAccounted ==
    ASSUME TypeOK, Accounted, NEW p \in Processes, Restart(p)
    PROVE  Accounted'
<1>1. /\ UNCHANGED <<clock, shared, call, retried>>
      /\ \A s \in Requests : charge'[s] = IF charge[s] # None /\ charge[s].counter = p
                                          THEN None ELSE charge[s]
      /\ \A s \in Requests : stage'[s] = stage[s] \/ stage'[s] = "lost"
      /\ local'[p] = [k \in Keys |-> None]
      /\ \A q \in Processes : q # p => local'[q] = local[q]
      /\ p # "redis"
  BY LimiterAssumption DEF Restart, TypeOK
<1>2. Counted' \subseteq Counted /\ IsFiniteSet(Counted)
  BY <1>1 DEF Counted, Accounted
<1>3. IsFiniteSet(Counted)'
  BY <1>2, FS_Subset
<1>4. ASSUME NEW c, NEW k, NEW w, NEW n, c # p, HandedOut(c, k, w, n)
      PROVE  HandedOut(c, k, w, n)'
  BY <1>1, <1>4, StillHandedOut
<1>5. ASSUME NEW s \in Counted'
      PROVE  /\ \/ charge'[s].counter = "redis" /\ Twice(charge[s].window, call[s].key)'
                \/ \A m \in 1 .. charge'[s].count :
                      HandedOut(charge[s].counter, call[s].key, charge[s].window, m)'
             /\ stage'[s] = "limited" => Exceeds(charge'[s].count)
  <2>1. s \in Counted /\ charge'[s] = charge[s] /\ charge[s].counter # p
    BY <1>1 DEF Counted
  <2>2. call'[s] = call[s] /\ (stage'[s] = "limited" => stage[s] = "limited")
    BY <1>1 DEF Counted
  <2>. QED  BY <1>1, <1>4, <2>1, <2>2 DEF Accounted, Twice
<1>6. ASSUME NEW w \in Windows, NEW k \in Keys, ~Outlived(w)', ~Twice(w, k)'
      PROVE  \A m \in 1 .. shared'[w][k] : HandedOut("redis", k, w, m)'
  BY <1>1, <1>4, <1>6 DEF Accounted, Outlived, Twice
<1>7. ASSUME NEW q \in Processes, NEW k \in Keys,
             local'[q][k] # None, local'[q][k].window = clock'
      PROVE  \A m \in 1 .. local'[q][k].count : HandedOut(q, k, clock, m)'
  <2>1. q # p /\ local'[q] = local[q]
    BY <1>1, <1>7
  <2>2. \A m \in 1 .. local'[q][k].count : HandedOut(q, k, clock', m)
    BY <1>1, <1>7, <2>1 DEF Accounted
  <2>. QED  BY <1>4, <2>1, <2>2
<1>. QED  BY <1>3, <1>5, <1>6, <1>7 DEF Accounted, Exceeds

\* Every step keeps the counts accounted for.
LEMMA AccountedStep ==
    ASSUME TypeOK, Numbered, Tidy, Accounted, [Next]_vars
    PROVE  Accounted'
<1>1. ASSUME NEW r \in Requests, NEW p \in Processes, NEW k \in Keys, Arrive(r, p, k)
      PROVE  Accounted'
  <2>1. charge[r] = None
    BY <1>1 DEF Arrive, Numbered
  <2>2. \A s \in Requests : s # r => stage'[s] = stage[s] /\ call'[s] = call[s]
    BY <1>1 DEF Arrive, TypeOK
  <2>. QED  BY <1>1, <2>1, <2>2, QuietAccounted DEF Arrive, counts
<1>2. ASSUME NEW r \in Requests, RedisFails(r)
      PROVE  Accounted'
  <2>1. charge[r] = None
    BY <1>2 DEF RedisFails, Numbered, InFlight
  <2>2. \A s \in Requests : s # r => stage'[s] = stage[s]
    BY <1>2 DEF RedisFails, TypeOK
  <2>. QED  BY <1>2, <2>1, <2>2, QuietAccounted DEF RedisFails, counts
<1>3. ASSUME NEW r \in Requests, AnswerLost(r)
      PROVE  Accounted'
  <2>1. PICK w, k : w = call[r].window /\ k = call[r].key
    OBVIOUS
  <2>2. w \in Windows /\ k \in Keys /\ shared \in [Windows -> [Keys -> Nat]]
    BY <1>3, <2>1 DEF AnswerLost, TypeOK, InFlight, Call
  <2>3. /\ shared' = [shared EXCEPT ![w][k] = @ + 1]
        /\ retried' = retried \cup {<<w, k>>}
        /\ UNCHANGED <<clock, local, stage, call, charge>>
    BY <1>3, <2>1 DEF AnswerLost
  <2>4. \A x \in Windows, j \in Keys : x # w \/ j # k => shared'[x][j] = shared[x][j]
    BY <2>2, <2>3
  <2>5. \A x \in Windows, j \in Keys :
            shared'[x][j] # shared[x][j] => <<x, j>> \in retried'
    BY <2>3, <2>4
  <2>. QED  BY <2>3, <2>5, QuietAccounted
<1>4. ASSUME NEW w \in Windows, NEW k \in Keys, Expire(w, k)
      PROVE  Accounted'
  <2>1. /\ shared' = [shared EXCEPT ![w][k] = 0]
        /\ UNCHANGED <<clock, local, stage, call, charge, retried>>
    BY <1>4 DEF Expire
  <2>2. \A x \in Windows, j \in Keys : shared'[x][j] # shared[x][j] => shared'[x][j] = 0
    BY <2>1 DEF TypeOK
  <2>. QED  BY <2>1, <2>2, QuietAccounted
<1>5. CASE Tick
  BY <1>5, QuietAccounted DEF Tick, counts
<1>6. CASE UNCHANGED vars
  BY <1>6, QuietAccounted DEF vars, counts
<1>. QED
  BY <1>1, <1>2, <1>3, <1>4, <1>5, <1>6, IncrementAccounted, IncrementLocalAccounted,
     RestartAccounted DEF Next, Quiet

\* Counts without a gap up to one over the limit are those of more than Limit
\* requests: a request chosen for each count is another one for another count.
LEMMA AccountedRefuses == TypeOK /\ Accounted => RefusedIsOverLimit
<1>. SUFFICES ASSUME TypeOK, Accounted, NEW r \in Requests,
                     stage[r] = "limited", charge[r] # None,
                     ~(charge[r].counter = "redis"
                         /\ <<charge[r].window, call[r].key>> \in retried)
              PROVE  Cardinality(ChargedTo(charge[r].counter, call[r].key, charge[r].window))
                        > Limit
  BY DEF RefusedIsOverLimit
<1>. DEFINE S == ChargedTo(charge[r].counter, call[r].key, charge[r].window)
            n == charge[r].count
            f == [m \in 1 .. n |-> CHOOSE s \in S : charge[s].count = m]
<1>1. Limit \in Nat /\ n \in Nat
  BY ChargeType, LimiterAssumption
<1>2. n > Limit /\ IsFiniteSet(Counted)
  BY DEF Accounted, Counted, Exceeds
<1>3. ASSUME NEW m \in 1 .. n
      PROVE  \E s \in S : charge[s].count = m
  <2>1. HandedOut(charge[r].counter, call[r].key, charge[r].window, m)
    BY DEF Accounted, Counted, Twice
  <2>. QED  BY <2>1 DEF HandedOut, ChargedTo
<1>4. ASSUME NEW m \in 1 .. n
      PROVE  f[m] \in S /\ charge[f[m]].count = m
  BY <1>3
<1>5. f \in [1 .. n -> S] /\ \A l, m \in 1 .. n : f[l] = f[m] => l = m
  BY <1>4
<1>6. IsFiniteSet(S)
  <2>1. S \subseteq Counted
    BY DEF ChargedTo, Counted
  <2>. QED  BY <1>2, <2>1, FS_Subset
<1>. HIDE DEF f, S, n
<1>7. Cardinality(S) \in Nat /\ n <= Cardinality(S)
  BY <1>1, <1>5, <1>6, AtLeastNumbers
<1>8. Cardinality(S) > Limit
  BY <1>1, <1>2, <1>7
<1>. QED  BY <1>8 DEF S

\* A caller is refused only when more than Limit requests of its key were counted in
\* that minute, unless a retried call made Redis count one of them twice: no cleanup,
\* expiry, restart or fallback to the local map leaves a count behind that is too high.
THEOREM RefusedAreOverLimit == Spec => []RefusedIsOverLimit
<1>1. Init => IInv /\ Tidy /\ StaleBounded /\ Accounted
  BY TypeInit, NumberedInit, TidyInit, AccountedInit DEF IInv
<1>2. IInv /\ Tidy /\ StaleBounded /\ Accounted /\ [Next]_vars
         => (IInv /\ Tidy /\ StaleBounded /\ Accounted)'
  BY TypeStep, NumberedStep, TidyStep, AccountedStep DEF IInv
<1>3. IInv /\ Accounted => RefusedIsOverLimit
  BY AccountedRefuses DEF IInv
<1>. QED  BY <1>1, <1>2, <1>3, PTL DEF Spec

-----------------------------------------------------------------------------
(* The limiter implements the book.                                        *)

\* A counter at n has counted no more than n requests, and n if it left none out.
LEMMA ExactCount ==
    ASSUME TypeOK, Numbered, Accounted, NEW c, NEW k, NEW w, NEW n \in Nat,
           \A s \in ChargedTo(c, k, w) : charge[s].count <= n
    PROVE  LET met == Cardinality(ChargedTo(c, k, w)) IN
           /\ met \in Nat /\ met <= n
           /\ (\A m \in 1 .. n : HandedOut(c, k, w, m)) => met = n
<1>. DEFINE S == ChargedTo(c, k, w)
            f == [s \in S |-> charge[s].count]
            g == [m \in 1 .. n |-> CHOOSE s \in S : charge[s].count = m]
<1>1. ASSUME NEW s \in S
      PROVE  s \in Requests /\ charge[s] # None /\ f[s] \in 1 .. n
  <2>1. s \in Requests /\ charge[s] # None
    BY DEF ChargedTo
  <2>2. charge[s].count \in Nat /\ charge[s].count >= 1
    BY <2>1, ChargeType DEF Numbered, Kept
  <2>. QED  BY <2>1, <2>2
<1>2. ASSUME NEW s \in S, NEW t \in S, f[s] = f[t]
      PROVE  s = t
  <2>1. s \in Requests /\ t \in Requests /\ Together(s, t)
    BY DEF ChargedTo, Together
  <2>. QED  BY <1>2, <2>1 DEF Numbered
<1>3. f \in [S -> 1 .. n] /\ \A s, t \in S : f[s] = f[t] => s = t
  BY <1>1, <1>2
<1>4. ASSUME \A m \in 1 .. n : HandedOut(c, k, w, m)
      PROVE  g \in [1 .. n -> S] /\ \A l, m \in 1 .. n : g[l] = g[m] => l = m
  <2>1. ASSUME NEW m \in 1 .. n
        PROVE  g[m] \in S /\ charge[g[m]].count = m
    <3>1. \E s \in S : charge[s].count = m
      BY <1>4 DEF HandedOut, ChargedTo
    <3>. QED  BY <3>1
  <2>. QED  BY <2>1
<1>. HIDE DEF f, g, S
<1>5. IsFiniteSet(S) /\ Cardinality(S) \in Nat /\ Cardinality(S) <= n
  BY <1>3, AtMostNumbers
<1>6. (\A m \in 1 .. n : HandedOut(c, k, w, m)) => n <= Cardinality(S)
  BY <1>4, <1>5, AtLeastNumbers
<1>. QED  BY <1>5, <1>6 DEF S

\* What is entered under a counter, a key and a minute is what was charged to them.
LEMMA EnteredIsCharged ==
    ASSUME NEW c, NEW k, NEW w
    PROVE  Window!EnteredLike(c, k, w) = ChargedTo(c, k, w)
<1>1. ASSUME NEW r \in Requests
      PROVE  Window!Entry(r, c, k, w) \in Book <=> r \in ChargedTo(c, k, w)
  <2>1. ASSUME Window!Entry(r, c, k, w) \in Book
        PROVE  r \in ChargedTo(c, k, w)
    <3>1. PICK s \in Requests : charge[s] # None /\ Window!Entry(r, c, k, w) = EntryOf(s)
      BY <2>1 DEF Book
    <3>2. s = r /\ charge[s].counter = c /\ call[s].key = k /\ charge[s].window = w
      BY <3>1 DEF EntryOf, Window!Entry
    <3>. QED  BY <3>1, <3>2 DEF ChargedTo
  <2>2. ASSUME r \in ChargedTo(c, k, w)
        PROVE  Window!Entry(r, c, k, w) \in Book
    <3>1. charge[r] # None /\ Window!Entry(r, c, k, w) = EntryOf(r)
      BY <2>2 DEF ChargedTo, EntryOf, Window!Entry
    <3>. QED  BY <3>1 DEF Book
  <2>. QED  BY <2>1, <2>2
<1>. QED  BY <1>1 DEF Window!EnteredLike, ChargedTo

\* The book counts as the limiter does.
LEMMA SameCardinality ==
    ASSUME NEW S
    PROVE  Window!Cardinality(S) = Cardinality(S)
BY DEF Window!Cardinality, Cardinality

\* A charge is an entry more.
LEMMA BookGrows ==
    ASSUME TypeOK, NEW r \in Requests, NEW c, NEW w, NEW n, charge[r] = None,
           [window |-> w, count |-> n, counter |-> c] \in Charge,
           charge' = [charge EXCEPT ![r] = [window |-> w, count |-> n, counter |-> c]],
           UNCHANGED call
    PROVE  Book' = Book \cup {Window!Entry(r, c, call[r].key, w)}
<1>1. /\ charge'[r] = [window |-> w, count |-> n, counter |-> c] /\ charge'[r] # None
      /\ \A s \in Requests : s # r => charge'[s] = charge[s]
  BY LimiterSentinel DEF TypeOK
<1>2. EntryOf(r)' = Window!Entry(r, c, call[r].key, w)
  BY <1>1 DEF EntryOf, Window!Entry
<1>3. \A s \in Requests : s # r => EntryOf(s)' = EntryOf(s)
  BY <1>1 DEF EntryOf
<1>4. {s \in Requests : charge'[s] # None} = {s \in Requests : charge[s] # None} \cup {r}
  BY <1>1
<1>5. r \notin {s \in Requests : charge[s] # None}
  OBVIOUS
<1>. QED  BY <1>2, <1>3, <1>4, <1>5 DEF Book

\* A request that a counter at n counts is judged as the book would.
LEMMA JudgedByTheBook ==
    ASSUME TypeOK, Numbered, Accounted, NEW r \in Requests,
           NEW c \in Counters, NEW w \in Nat, NEW k \in Keys, NEW n \in Nat,
           k = call[r].key, stage[r] \in InFlight, charge[r] = None,
           w <= clock, clock <= w + 1, c # "redis" => w = clock,
           [window |-> w, count |-> n + 1, counter |-> c] \in Charge,
           charge' = [charge EXCEPT ![r] = [window |-> w, count |-> n + 1, counter |-> c]],
           stage' = [stage EXCEPT ![r] = IF Exceeds(n + 1) THEN "limited" ELSE "passed"],
           UNCHANGED <<clock, call, retried>>,
           \A s \in ChargedTo(c, k, w) : charge[s].count <= n,
           \/ c = "redis" /\ Twice(w, k)
           \/ \A m \in 1 .. n : HandedOut(c, k, w, m)
    PROVE  Window!Pass(r) \/ Window!Refuse(r)
<1>. DEFINE met == Cardinality(Window!EnteredLike(c, k, w))
<1>1. /\ met \in Nat /\ met <= n
      /\ (\A m \in 1 .. n : HandedOut(c, k, w, m)) => met = n
  BY ExactCount, EnteredIsCharged
<1>. HIDE DEF met
<1>2. r \notin Answered("passed") \cup Answered("limited")
  BY DEF Answered, InFlight
<1>3. /\ stage'[r] = IF Exceeds(n + 1) THEN "limited" ELSE "passed"
      /\ \A s \in Requests : s # r => stage'[s] = stage[s]
  BY DEF TypeOK
<1>4. Window!Enter(r, c, k, w)
  BY BookGrows DEF Window!Enter, Window!Counting
<1>5. c \in Window!Counters /\ clock \in Nat /\ w \in 0 .. clock /\ Limit \in Nat
  BY LimiterAssumption DEF Window!Counters, Counters, TypeOK, Windows
<1>6. CASE Exceeds(n + 1)
  <2>1. Answered("limited")' = Answered("limited") \cup {r}
    BY <1>3, <1>6 DEF Answered
  <2>2. Answered("passed")' = Answered("passed")
    BY <1>2, <1>3, <1>6 DEF Answered
  <2>3. met >= Limit \/ (c = "redis" /\ <<w, k>> \in retried)
    BY <1>1, <1>5, <1>6 DEF Exceeds, Twice
  <2>4. \E counter \in Window!Counters, j \in Keys, m \in 0 .. clock :
            /\ Window!Enter(r, counter, j, m)
            /\ \/ Window!Cardinality(Window!EnteredLike(counter, j, m)) >= Limit
               \/ counter = "redis" /\ <<m, j>> \in retried
    <3>1. \/ Window!Cardinality(Window!EnteredLike(c, k, w)) >= Limit
          \/ c = "redis" /\ <<w, k>> \in retried
      BY <2>3, SameCardinality DEF met
    <3>. QED  BY <1>4, <1>5, <3>1
  <2>5. Window!Refuse(r)
    BY <1>2, <2>1, <2>2, <2>4 DEF Window!Refuse
  <2>. QED  BY <2>5
<1>7. CASE ~Exceeds(n + 1)
  <2>1. Answered("passed")' = Answered("passed") \cup {r}
    BY <1>3, <1>7 DEF Answered
  <2>2. Answered("limited")' = Answered("limited")
    BY <1>2, <1>3, <1>7 DEF Answered
  <2>3. met < Limit
    BY <1>1, <1>5, <1>7 DEF Exceeds
  <2>4. \E counter \in Window!Counters, j \in Keys, m \in 0 .. clock :
            /\ Window!Enter(r, counter, j, m)
            /\ Window!Cardinality(Window!EnteredLike(counter, j, m)) < Limit
    <3>1. Window!Cardinality(Window!EnteredLike(c, k, w)) < Limit
      BY <2>3, SameCardinality DEF met
    <3>. QED  BY <1>4, <1>5, <3>1
  <2>5. Window!Pass(r)
    BY <1>2, <2>1, <2>2, <2>4 DEF Window!Pass
  <2>. QED  BY <2>5
<1>. QED  BY <1>6, <1>7

\* A request is counted in Redis: the key it names has not expired.
LEMMA IncrementByTheBook ==
    ASSUME TypeOK, Numbered, Accounted, NEW r \in Requests, increment(r)
    PROVE  Window!Pass(r) \/ Window!Refuse(r)
<1>0. PICK w, k, n : w = call[r].window /\ k = call[r].key /\ n = shared[w][k]
  OBVIOUS
<1>1. w \in Windows /\ k \in Keys /\ w \in Nat /\ clock \in Nat /\ n \in Nat
  BY <1>0 DEF increment, TypeOK, InFlight, Call, Windows
<1>2. charge[r] = None /\ w <= clock /\ clock <= w + 1
  BY <1>0 DEF increment, Numbered, InFlight
<1>3. ~Outlived(w)
  BY <1>1, <1>2 DEF Outlived
<1>4. /\ charge' = [charge EXCEPT ![r] = [window |-> w, count |-> n + 1, counter |-> "redis"]]
      /\ stage' = [stage EXCEPT ![r] = IF Exceeds(n + 1) THEN "limited" ELSE "passed"]
      /\ UNCHANGED <<clock, call, retried>> /\ stage[r] \in InFlight
  BY <1>0 DEF increment, Charged, InFlight
<1>5. [window |-> w, count |-> n + 1, counter |-> "redis"] \in Charge
  BY <1>1 DEF Charge, Counters
<1>6. ASSUME NEW s \in ChargedTo("redis", k, w)
      PROVE  charge[s].count <= n
  BY <1>0, <1>3 DEF ChargedTo, Numbered, Kept
<1>7. Twice(w, k) \/ \A m \in 1 .. n : HandedOut("redis", k, w, m)
  BY <1>0, <1>1, <1>3 DEF Accounted
<1>8. "redis" \in Counters
  BY DEF Counters
<1>. QED  BY <1>0, <1>1, <1>2, <1>4, <1>5, <1>6, <1>7, <1>8, JudgedByTheBook

\* A request is counted in the map of its process: what the cleanup drops and what
\* the bucket forgets is of minutes that are over.
LEMMA IncrementLocalByTheBook ==
    ASSUME TypeOK, Numbered, Accounted, NEW r \in Requests, incrementLocal(r)
    PROVE  Window!Pass(r) \/ Window!Refuse(r)
<1>0. PICK p, k, n : p = call[r].process /\ k = call[r].key
                     /\ n = CountBefore(cleanupLocal(p)[k])
  OBVIOUS
<1>1. p \in Processes /\ k \in Keys /\ n \in Nat /\ stage[r] = "fallback"
  BY <1>0, LocalFacts
<1>2. clock \in Nat /\ clock \in Windows
  BY DEF TypeOK, Windows
<1>3. charge[r] = None
  BY <1>1 DEF Numbered, InFlight
<1>4. /\ charge' = [charge EXCEPT ![r] = [window |-> clock, count |-> n + 1, counter |-> p]]
      /\ stage' = [stage EXCEPT ![r] = IF Exceeds(n + 1) THEN "limited" ELSE "passed"]
      /\ UNCHANGED <<clock, call, retried>> /\ stage[r] \in InFlight
  BY <1>0, <1>1 DEF incrementLocal, Charged, InFlight
<1>5. [window |-> clock, count |-> n + 1, counter |-> p] \in Charge /\ p \in Counters
  BY <1>1, <1>2 DEF Charge, Counters
<1>6. p # "redis"
  BY <1>1, LimiterAssumption
<1>7. local[p][k] # None /\ local[p][k].window = clock => n = local[p][k].count
  BY <1>0, <1>1, CleanupType DEF CountBefore
<1>8. ASSUME NEW s \in ChargedTo(p, k, clock)
      PROVE  charge[s].count <= n
  <2>1. /\ local[p][k] # None /\ local[p][k].window = clock
        /\ charge[s].count <= local[p][k].count
    BY <1>6 DEF ChargedTo, Numbered, Kept
  <2>. QED  BY <1>7, <2>1
<1>9. ASSUME NEW m \in 1 .. n
      PROVE  HandedOut(p, k, clock, m)
  <2>1. CASE local[p][k] # None /\ local[p][k].window = clock
    BY <1>1, <1>7, <2>1 DEF Accounted
  <2>2. CASE ~(local[p][k] # None /\ local[p][k].window = clock)
    <3>1. cleanupLocal(p)[k] = None \/ cleanupLocal(p)[k].window # clock
      <4>1. cleanupLocal(p)[k] = None \/ cleanupLocal(p)[k] = local[p][k]
        BY <1>1 DEF cleanupLocal, TypeOK
      <4>. QED  BY <2>2, <4>1
    <3>2. n = 0
      BY <1>0, <3>1 DEF CountBefore
    <3>. QED  BY <3>2
  <2>. QED  BY <2>1, <2>2
<1>. QED
  <2>1. PICK w \in Nat : w = clock
    BY <1>2
  <2>2. w <= clock /\ clock <= w + 1
    BY <1>2, <2>1
  <2>. QED  BY <1>0, <1>1, <1>3, <1>4, <1>5, <1>8, <1>9, <2>1, <2>2, JudgedByTheBook

\* A step that judges nobody leaves the book and the answers alone.
LEMMA NobodyJudged ==
    ASSUME TypeOK, charge' = charge,
           \A s \in Requests : charge[s] # None => call'[s] = call[s],
           \A s \in Requests :
              stage'[s] = stage[s] \/ {stage[s], stage'[s]} \cap {"passed", "limited"} = {}
    PROVE  UNCHANGED <<Book, Answered("passed"), Answered("limited")>>
<1>1. \A s \in Requests : charge[s] # None => EntryOf(s)' = EntryOf(s)
  BY DEF EntryOf
<1>2. Book' = Book
  BY <1>1 DEF Book
<1>. QED  BY <1>2 DEF Answered

\* A restart forgets what its process counted and answers nobody.
LEMMA RestartForgets ==
    ASSUME TypeOK, NEW p \in Processes, Restart(p)
    PROVE  Window!Forget(p)
<1>1. /\ charge' = [r \in Requests |-> IF charge[r] # None /\ charge[r].counter = p
                                      THEN None ELSE charge[r]]
      /\ stage' = [r \in Requests |-> IF stage[r] \in InFlight /\ call[r].process = p
                                     THEN "lost" ELSE stage[r]]
      /\ UNCHANGED <<clock, call, retried>>
  BY DEF Restart
<1>2. \A r \in Requests : charge'[r] # None => EntryOf(r)' = EntryOf(r)
  BY <1>1 DEF EntryOf
<1>3. {r \in Requests : charge'[r] # None}
         = {r \in Requests : charge[r] # None /\ charge[r].counter # p}
  BY <1>1
<1>4. \A r \in Requests : EntryOf(r).counter = charge[r].counter
  BY DEF EntryOf
<1>5. Book' = {e \in Book : e.counter # p}
  BY <1>2, <1>3, <1>4 DEF Book
<1>6. \A r \in Requests :
         \/ stage'[r] = stage[r]
         \/ stage[r] \in {"redis", "fallback"} /\ stage'[r] = "lost"
  BY <1>1 DEF InFlight
<1>7. UNCHANGED <<Answered("passed"), Answered("limited")>>
  BY <1>6 DEF Answered
<1>. QED  BY <1>1, <1>5, <1>7 DEF Window!Forget

\* Every step is one of the book, or leaves it alone.
LEMMA WindowStep ==
    ASSUME TypeOK, Numbered, Accounted, [Next]_vars
    PROVE  [Window!WindowNext]_(Window!wvars)
<1>1. ASSUME NEW r \in Requests, increment(r) \/ incrementLocal(r)
      PROVE  Window!WindowNext
  BY <1>1, IncrementByTheBook, IncrementLocalByTheBook DEF Window!WindowNext
<1>2. ASSUME NEW r \in Requests, AnswerLost(r)
      PROVE  Window!WindowNext
  <2>1. PICK w, k : w = call[r].window /\ k = call[r].key
    OBVIOUS
  <2>2. w \in Nat /\ k \in Keys /\ clock \in Nat
    BY <1>2, <2>1 DEF AnswerLost, TypeOK, InFlight, Call, Windows
  <2>3. w <= clock /\ clock <= w + 1
    BY <1>2, <2>1 DEF AnswerLost, Numbered
  <2>4. retried' = retried \cup {<<w, k>>} /\ UNCHANGED <<clock, stage, call, charge>>
    BY <1>2, <2>1 DEF AnswerLost
  <2>5. UNCHANGED <<Book, Answered("passed"), Answered("limited")>>
    BY <2>4, NobodyJudged
  <2>6. Window!Double(k, w)
    BY <2>3, <2>4, <2>5 DEF Window!Double, Window!Counting
  <2>7. w \in 0 .. clock
    BY <2>2, <2>3
  <2>. QED  BY <2>2, <2>6, <2>7 DEF Window!WindowNext
<1>3. CASE Tick
  <2>1. clock' = clock + 1 /\ UNCHANGED <<stage, call, charge, retried>>
    BY <1>3 DEF Tick
  <2>2. UNCHANGED <<Book, Answered("passed"), Answered("limited")>>
    BY <2>1, NobodyJudged
  <2>3. Window!NextMinute
    BY <2>1, <2>2 DEF Window!NextMinute
  <2>. QED  BY <2>3 DEF Window!WindowNext
<1>4. ASSUME NEW p \in Processes, Restart(p)
      PROVE  Window!WindowNext
  BY <1>4, RestartForgets DEF Window!WindowNext
<1>5. ASSUME NEW r \in Requests, NEW p \in Processes, NEW k \in Keys, Arrive(r, p, k)
      PROVE  UNCHANGED Window!wvars
  <2>1. charge[r] = None
    BY <1>5 DEF Arrive, Numbered
  <2>2. \A s \in Requests : charge[s] # None => call'[s] = call[s]
    BY <1>5, <2>1 DEF Arrive, TypeOK
  <2>3. \A s \in Requests :
            \/ stage'[s] = stage[s]
            \/ stage[s] = "idle" /\ stage'[s] \in {"redis", "fallback"}
    BY <1>5 DEF Arrive, TypeOK
  <2>4. UNCHANGED <<clock, charge, retried>>
    BY <1>5 DEF Arrive
  <2>5. UNCHANGED <<Book, Answered("passed"), Answered("limited")>>
    BY <2>2, <2>3, <2>4, NobodyJudged
  <2>. QED  BY <2>4, <2>5 DEF Window!wvars
<1>6. ASSUME NEW r \in Requests, RedisFails(r)
      PROVE  UNCHANGED Window!wvars
  <2>1. \A s \in Requests :
            \/ stage'[s] = stage[s]
            \/ stage[s] = "redis" /\ stage'[s] = "fallback"
    BY <1>6 DEF RedisFails, TypeOK
  <2>2. UNCHANGED <<clock, call, charge, retried>>
    BY <1>6 DEF RedisFails
  <2>3. UNCHANGED <<Book, Answered("passed"), Answered("limited")>>
    BY <2>1, <2>2, NobodyJudged
  <2>. QED  BY <2>2, <2>3 DEF Window!wvars
<1>7. CASE UNCHANGED vars \/ Quiet \/ \E w \in Windows, k \in Keys : Expire(w, k)
  <2>1. UNCHANGED <<clock, stage, call, charge, retried>>
    BY <1>7 DEF vars, Quiet, Expire
  <2>2. UNCHANGED <<Book, Answered("passed"), Answered("limited")>>
    BY <2>1, NobodyJudged
  <2>. QED  BY <2>1, <2>2 DEF Window!wvars
<1>. QED  BY <1>1, <1>2, <1>3, <1>4, <1>5, <1>6, <1>7 DEF Next

\* The book is empty at first.
LEMMA WindowStarts == Init => Window!WindowInit
<1>. SUFFICES ASSUME Init PROVE Window!WindowInit
  OBVIOUS
<1>1. Book = {}
  BY DEF Init, Book
<1>2. Answered("passed") = {} /\ Answered("limited") = {}
  BY DEF Init, Answered
<1>. QED  BY <1>1, <1>2 DEF Init, Window!WindowInit

\* The limiter, with what it forgets, expires, cleans up, retries and loses, judges
\* every request as the book that forgets nothing would, for any requests, processes,
\* keys, limit, cleanup threshold and minutes.
THEOREM LimiterImplementsWindow == Spec => ImplementsWindow
<1>1. Init => IInv /\ Tidy /\ StaleBounded /\ Accounted
  BY TypeInit, NumberedInit, TidyInit, AccountedInit DEF IInv
<1>2. IInv /\ Tidy /\ StaleBounded /\ Accounted /\ [Next]_vars
         => (IInv /\ Tidy /\ StaleBounded /\ Accounted)'
  BY TypeStep, NumberedStep, TidyStep, AccountedStep DEF IInv
<1>3. IInv /\ Accounted /\ [Next]_vars => [Window!WindowNext]_(Window!wvars)
  BY WindowStep DEF IInv
<1>. QED
  BY <1>1, <1>2, <1>3, WindowStarts, PTL DEF Spec, ImplementsWindow, Window!WindowSpec

=============================================================================
