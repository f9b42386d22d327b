--------------------------- MODULE StartupProofs ---------------------------
(***************************************************************************)
(* Theorems about Startup.  What is known of the tables is that each is     *)
(* either unused or has all its seeds; what is known of a process is that   *)
(* the tables it has left behind are seeded, and that a request only runs   *)
(* in a process that came past all of them.                                *)
(***************************************************************************)
EXTENDS Startup, TLAPS

AllOrNothing == \A t \in Tables : Seeded(t) \/ Unused(t) = Codes

LeftBehind ==
    \A p \in Processes :
        /\ stage[p] \in {"connecting", "migrating"} => at[p] = User
        /\ stage[p] = "seeding" => \A t \in Tables : t < at[p] => Seeded(t)
        /\ stage[p] = "redis" => \A t \in Tables : Seeded(t)

RunsInServer ==
    \A r \in Requests :
        request[r] \in Processes => stage[request[r]] \in {"serving", "stopping"}

Inv == TypeOK /\ AllOrNothing /\ LeftBehind /\ RunsInServer /\ ServedIsSeeded

-----------------------------------------------------------------------------
(* What a step does to the tables.                                         *)

Statuses == {"absent", "live", "deleted"}

\* A table after an insertion.
LEMMA InsertedTable ==
    ASSUME TypeOK, NEW t \in Tables, NEW codes \in SUBSET Codes
    PROVE  /\ Inserted(t, codes) \in [Tables -> [Codes -> Statuses]]
           /\ \A u \in Tables, c \in Codes :
                 Inserted(t, codes)[u][c] =
                    IF u = t /\ c \in codes THEN "live" ELSE tables[u][c]
  BY DEF TypeOK, Inserted, Statuses

\* The insertion of all seeds into a table that has none of them.
SeedsTable(p) ==
    /\ stage[p] = "seeding"
    /\ empty[p]
    /\ Seeds[at[p]] \subseteq Unused(at[p])
    /\ tables' = Inserted(at[p], Seeds[at[p]])
    /\ NextTable(p)
    /\ UNCHANGED request

\* Only insertions of seeds and requests write tables.
LEMMA TableSteps ==
    ASSUME TypeOK, [Next]_vars
    PROVE  \/ UNCHANGED tables
           \/ \E p \in Processes : SeedsTable(p)
           \/ \E r \in Requests : CreateRecord(r) \/ DeleteRecord(r)
<1>1. CASE UNCHANGED vars
  BY <1>1 DEF vars
<1>2. ASSUME NEW p \in Processes, Insert(p)
      PROVE  UNCHANGED tables \/ SeedsTable(p)
  BY <1>2 DEF Insert, SeedsTable
<1>3. ASSUME NEW p \in Processes,
             \/ Start(p) \/ Connect(p) \/ NotReady(p, TRUE) \/ NotReady(p, FALSE)
             \/ migrate(p) \/ Count(p) \/ PingRedis(p) \/ OpenFails(p)
             \/ ListenAndServe(p) \/ ListenFails(p) \/ ErrServerClosed(p)
             \/ Shutdown(p) \/ Drained(p) \/ ShutdownExpires(p) \/ Crash(p)
             \/ \E r \in Requests : Accept(r, p)
      PROVE  UNCHANGED tables
  BY <1>3 DEF Start, Connect, NotReady, migrate, Count, PingRedis, OpenFails,
        ListenAndServe, ListenFails, ErrServerClosed, Shutdown, Drained,
        ShutdownExpires, Crash, Accept, Exits
<1>4. CASE Quiet
  BY <1>4 DEF Quiet, vars
<1>5. ASSUME NEW r \in Requests, Answer(r)
      PROVE  UNCHANGED tables
  BY <1>5 DEF Answer
<1> QED
  BY <1>1, <1>2, <1>3, <1>4, <1>5 DEF Next

\* A request that writes runs in a server, and ends.
LEMMA WritingRequest ==
    ASSUME NEW r \in Requests, CreateRecord(r) \/ DeleteRecord(r)
    PROVE  /\ request[r] \in Processes
           /\ request' = [request EXCEPT ![r] = "answered"]
           /\ UNCHANGED <<stage, at>>
  BY DEF CreateRecord, DeleteRecord, Answered, opening

\* Codes are deleted softly, so a table that got its seeds keeps them.
LEMMA SeededStays ==
    ASSUME StartupAssumption, TypeOK, [Next]_vars, NEW t \in Tables, Seeded(t)
    PROVE  Seeded(t)'
<1> SUFFICES ASSUME NEW c \in Codes, tables[t][c] # "absent"
             PROVE  tables'[t][c] # "absent"
  BY DEF StartupAssumption, Seeded, Unused
<1>1. CASE UNCHANGED tables
  BY <1>1
<1>2. ASSUME NEW p \in Processes, SeedsTable(p)
      PROVE  tables'[t][c] # "absent"
  <2>1. at[p] \in Tables /\ Seeds[at[p]] \in SUBSET Codes
    BY <1>2 DEF SeedsTable, TypeOK, StartupAssumption
  <2> QED
    BY <1>2, <2>1, InsertedTable DEF SeedsTable
<1>3. ASSUME NEW r \in Requests, CreateRecord(r)
      PROVE  tables'[t][c] # "absent"
  <2>1. PICK u \in Tables, d \in Codes : tables' = Inserted(u, {d})
    BY <1>3 DEF CreateRecord, Unused
  <2>2. {d} \in SUBSET Codes
    OBVIOUS
  <2> QED
    BY <2>1, <2>2, InsertedTable
<1>4. ASSUME NEW r \in Requests, DeleteRecord(r)
      PROVE  tables'[t][c] # "absent"
  BY <1>4 DEF DeleteRecord, TypeOK
<1> QED
  BY <1>1, <1>2, <1>3, <1>4, TableSteps

-----------------------------------------------------------------------------
(* The invariant.                                                          *)

LEMMA TablesTyped ==
    ASSUME StartupAssumption, TypeOK, [Next]_vars
    PROVE  tables' \in [Tables -> [Codes -> Statuses]]
<1>1. CASE UNCHANGED tables
  BY <1>1 DEF TypeOK, Statuses
<1>2. ASSUME NEW p \in Processes, SeedsTable(p)
      PROVE  tables' \in [Tables -> [Codes -> Statuses]]
  <2>1. at[p] \in Tables /\ Seeds[at[p]] \in SUBSET Codes
    BY <1>2 DEF SeedsTable, TypeOK, StartupAssumption
  <2> QED
    BY <1>2, <2>1, InsertedTable DEF SeedsTable
<1>3. ASSUME NEW r \in Requests, CreateRecord(r)
      PROVE  tables' \in [Tables -> [Codes -> Statuses]]
  <2>1. PICK u \in Tables, d \in Codes : tables' = Inserted(u, {d})
    BY <1>3 DEF CreateRecord, Unused
  <2>2. {d} \in SUBSET Codes
    OBVIOUS
  <2> QED
    BY <2>1, <2>2, InsertedTable
<1>4. ASSUME NEW r \in Requests, DeleteRecord(r)
      PROVE  tables' \in [Tables -> [Codes -> Statuses]]
  <2>1. PICK u \in Tables, d \in Codes : tables' = [tables EXCEPT ![u][d] = "deleted"]
    BY <1>4 DEF DeleteRecord, Deletable, Live
  <2> QED
    BY <2>1 DEF TypeOK, Statuses
<1> QED
  BY <1>1, <1>2, <1>3, <1>4, TableSteps

\* The rest of the shape, action by action.
Typed(p) ==
    /\ stage[p] \in {"connecting", "migrating", "seeding"} => at[p] \in Tables
    /\ listener[p] # "none" => stage[p] \in {"serving", "stopping"}
    /\ listener[p] \in {"starting", "listening"} => stage[p] = "serving"

LEMMA TypeKept ==
    ASSUME StartupAssumption, TypeOK, [Next]_vars
    PROVE  TypeOK'
<1> USE DEF Tables, User, PriorityDecision
<1>1. tables' \in [Tables -> [Codes -> {"absent", "live", "deleted"}]]
  BY TablesTyped DEF Statuses
<1>2. ASSUME UNCHANGED vars PROVE TypeOK'
  BY <1>2 DEF TypeOK, vars, opening
<1>3. ASSUME NEW p \in Processes, Start(p) PROVE TypeOK'
  BY <1>3, <1>1 DEF TypeOK, Start, StartupAssumption, Up, Opening
<1>4. ASSUME NEW p \in Processes, Connect(p) \/ migrate(p) PROVE TypeOK'
  BY <1>4, <1>1 DEF TypeOK, Connect, migrate, opening, Up, Opening
<1>5. ASSUME NEW p \in Processes, NEW e \in BOOLEAN, NotReady(p, e) PROVE TypeOK'
  BY <1>5, <1>1 DEF TypeOK, NotReady, StartupAssumption, Fault, Up, Opening
<1>6. ASSUME NEW p \in Processes, Count(p) \/ Insert(p) PROVE TypeOK'
  <2>1. stage[p] = "seeding" /\ UNCHANGED <<attempt, listener, request, faults>>
    BY <1>6 DEF Count, Insert
  <2>2. CASE NextTable(p)
    <3>1. /\ at' = [at EXCEPT ![p] = at[p] + 1]
          /\ empty' = [empty EXCEPT ![p] = FALSE]
          /\ stage' = [stage EXCEPT ![p] = IF at[p] = 5 THEN "redis" ELSE "seeding"]
      BY <2>2 DEF NextTable
    <3>2. at[p] \in 1 .. 5
      BY <2>1 DEF TypeOK
    <3>3. /\ at' \in [Processes -> Nat]
          /\ empty' \in [Processes -> BOOLEAN]
          /\ stage' \in [Processes -> Up \cup {"down", "stopped"}]
      BY <3>1, <3>2 DEF TypeOK, Up, Opening
    <3>4. \A q \in Processes : Typed(q)'
      BY <2>1, <3>1, <3>2 DEF TypeOK, Typed
    <3> QED
      BY <1>1, <2>1, <3>3, <3>4 DEF TypeOK, Typed
  <2>3. CASE UNCHANGED <<stage, at>> /\ empty' = [empty EXCEPT ![p] = TRUE]
    BY <1>1, <2>1, <2>3 DEF TypeOK
  <2>4. CASE UNCHANGED <<at, empty>> /\ stage' = [stage EXCEPT ![p] = "down"]
    BY <1>1, <2>1, <2>4 DEF TypeOK
  <2> QED
    BY <1>6, <2>2, <2>3, <2>4 DEF Count, Insert
<1>8. ASSUME NEW p \in Processes, PingRedis(p) PROVE TypeOK'
  BY <1>8, <1>1 DEF TypeOK, PingRedis, opening, Up, Opening
<1>9. ASSUME NEW p \in Processes, NEW next \in {"down", "stopped"}, NEW why \in Ends,
             Exits(p, next, why), faults' \in 0 .. MaxFaults
      PROVE  TypeOK'
  BY <1>9, <1>1 DEF TypeOK, Exits, opening, Up, Opening
<1>10. ASSUME Fault PROVE faults' \in 0 .. MaxFaults
  BY <1>10 DEF Fault, TypeOK, StartupAssumption
<1>11. ASSUME NEW p \in Processes,
              \/ OpenFails(p) \/ ListenFails(p) \/ Drained(p)
              \/ ShutdownExpires(p) \/ Crash(p)
       PROVE  TypeOK'
  <2>1. faults' \in 0 .. MaxFaults
    BY <1>10, <1>11 DEF OpenFails, ListenFails, Drained, ShutdownExpires, Crash, TypeOK
  <2> QED
    BY <1>9, <1>11, <2>1
       DEF OpenFails, ListenFails, Drained, ShutdownExpires, Crash, Ends
<1>12. ASSUME NEW p \in Processes, ListenAndServe(p) \/ ErrServerClosed(p) PROVE TypeOK'
  BY <1>12, <1>1 DEF TypeOK, ListenAndServe, ErrServerClosed, opening
<1>13. ASSUME NEW p \in Processes, Shutdown(p) PROVE TypeOK'
  BY <1>13, <1>1, <1>10 DEF TypeOK, Shutdown, opening, Up, Opening
<1>14. ASSUME NEW p \in Processes, NEW r \in Requests, Accept(r, p) PROVE TypeOK'
  BY <1>14, <1>1 DEF TypeOK, Accept, opening
<1>15. ASSUME NEW r \in Requests, Answer(r) \/ CreateRecord(r) \/ DeleteRecord(r)
       PROVE  TypeOK'
  <2>1. Answered(r)
    BY <1>15 DEF Answer, CreateRecord, DeleteRecord
  <2> QED
    BY <1>1, <2>1 DEF TypeOK, Answered, opening, Ends
<1> QED
  BY <1>2, <1>3, <1>4, <1>5, <1>6, <1>8, <1>11, <1>12, <1>13, <1>14, <1>15
     DEF Next, Quiet

\* How the stage of a process moves.
LEMMA StageSteps ==
    ASSUME TypeOK, [Next]_vars, NEW p \in Processes
    PROVE  \/ stage'[p] = stage[p] /\ at'[p] = at[p]
           \/ stage'[p] \in {"down", "stopped"}
           \/ stage'[p] = "connecting" /\ at'[p] = User
           \/ stage[p] = "connecting" /\ stage'[p] = "migrating" /\ at'[p] = at[p]
           \/ stage[p] = "migrating" /\ stage'[p] = "seeding" /\ at'[p] = at[p]
           \/ stage[p] = "seeding" /\ NextTable(p) /\ (Live(at[p]) # {} \/ SeedsTable(p))
           \/ stage[p] = "redis" /\ stage'[p] = "serving"
           \/ stage[p] = "serving" /\ stage'[p] = "stopping"
<1> DEFINE Moves ==
           \/ stage'[p] = stage[p] /\ at'[p] = at[p]
           \/ stage'[p] \in {"down", "stopped"}
           \/ stage'[p] = "connecting" /\ at'[p] = User
           \/ stage[p] = "connecting" /\ stage'[p] = "migrating" /\ at'[p] = at[p]
           \/ stage[p] = "migrating" /\ stage'[p] = "seeding" /\ at'[p] = at[p]
           \/ stage[p] = "seeding" /\ NextTable(p) /\ (Live(at[p]) # {} \/ SeedsTable(p))
           \/ stage[p] = "redis" /\ stage'[p] = "serving"
           \/ stage[p] = "serving" /\ stage'[p] = "stopping"
<1>0. stage \in [Processes -> Up \cup {"down", "stopped"}] /\ at \in [Processes -> Nat]
  BY DEF TypeOK
<1>1. CASE UNCHANGED <<stage, at>>
  BY <1>1
<1>2. ASSUME NEW q \in Processes,
             \/ Start(q) \/ Connect(q) \/ NotReady(q, TRUE) \/ NotReady(q, FALSE)
             \/ migrate(q) \/ PingRedis(q) \/ Shutdown(q)
      PROVE  Moves
  BY <1>0, <1>2 DEF Start, Connect, NotReady, migrate, PingRedis, Shutdown, opening
<1>3. ASSUME NEW q \in Processes, Count(q) \/ Insert(q)
      PROVE  Moves
  <2>1. stage[q] = "seeding"
    BY <1>3 DEF Count, Insert
  <2>2. CASE NextTable(q) /\ (Live(at[q]) # {} \/ SeedsTable(q))
    BY <1>0, <2>1, <2>2 DEF NextTable
  <2>3. CASE UNCHANGED <<stage, at>>
    BY <2>3
  <2>4. CASE stage' = [stage EXCEPT ![q] = "down"] /\ UNCHANGED at
    BY <1>0, <2>4
  <2> QED
    BY <1>3, <2>2, <2>3, <2>4 DEF Count, Insert, SeedsTable
<1>4. ASSUME NEW q \in Processes,
             \/ OpenFails(q) \/ ListenFails(q) \/ Drained(q)
             \/ ShutdownExpires(q) \/ Crash(q)
      PROVE  Moves
  BY <1>0, <1>4
     DEF OpenFails, ListenFails, Drained, ShutdownExpires, Crash, Exits, opening
<1>5. ASSUME NEW q \in Processes,
             \/ ListenAndServe(q) \/ ErrServerClosed(q)
             \/ \E r \in Requests : Accept(r, q)
      PROVE  UNCHANGED <<stage, at>>
  BY <1>5 DEF ListenAndServe, ErrServerClosed, Accept, opening
<1>6. ASSUME NEW r \in Requests, Answer(r) \/ CreateRecord(r) \/ DeleteRecord(r)
      PROVE  UNCHANGED <<stage, at>>
  BY <1>6 DEF Answer, CreateRecord, DeleteRecord, Answered, opening
<1>7. ASSUME Quiet \/ UNCHANGED vars
      PROVE  UNCHANGED <<stage, at>>
  BY <1>7 DEF Quiet, vars, opening
<1> QED
  BY <1>1, <1>2, <1>3, <1>4, <1>5, <1>6, <1>7 DEF Next

\* An exit takes along the requests of its process, and no others.
LEMMA ExitTakesRequests ==
    ASSUME StartupAssumption, TypeOK, NEW p \in Processes,
           NEW next \in {"down", "stopped"}, NEW why \in Ends, Exits(p, next, why),
           NEW r \in Requests
    PROVE  /\ request[r] # p => request'[r] = request[r]
           /\ request[r] = p => request'[r] = why /\ why \notin Processes
           /\ \A q \in Processes \ {p} : stage'[q] = stage[q]
  BY DEF Exits, RequestsOf, TypeOK, StartupAssumption

LEMMA RunsInServerKept ==
    ASSUME StartupAssumption, TypeOK, RunsInServer, [Next]_vars
    PROVE  RunsInServer'
<1> SUFFICES ASSUME NEW r \in Requests, request'[r] \in Processes
             PROVE  stage'[request'[r]] \in {"serving", "stopping"}
  BY DEF RunsInServer
<1> DEFINE Held == stage'[request'[r]] \in {"serving", "stopping"}
<1>0. /\ stage \in [Processes -> Up \cup {"down", "stopped"}]
      /\ request \in [Requests -> Processes \cup Ends]
      /\ request[r] \in Processes => stage[request[r]] \in {"serving", "stopping"}
  BY DEF TypeOK, RunsInServer
<1>1. ASSUME NEW q \in Processes,
             \/ Start(q) \/ Connect(q) \/ NotReady(q, TRUE) \/ NotReady(q, FALSE)
             \/ migrate(q) \/ Count(q) \/ Insert(q) \/ PingRedis(q) \/ Shutdown(q)
      PROVE  Held
  <2>1. UNCHANGED request
    BY <1>1 DEF Start, Connect, NotReady, migrate, Count, Insert, PingRedis, Shutdown
  <2>2. \A p \in Processes : stage[p] \in {"serving", "stopping"} =>
                                stage'[p] \in {"serving", "stopping"}
    BY <1>0, <1>1 DEF Start, Connect, NotReady, migrate, Count, Insert, NextTable,
         PingRedis, Shutdown
  <2> QED
    BY <1>0, <2>1, <2>2
<1>2. ASSUME NEW q \in Processes,
             \/ OpenFails(q) \/ ListenFails(q) \/ Drained(q)
             \/ ShutdownExpires(q) \/ Crash(q)
      PROVE  Held
  <2>1. PICK next \in {"down", "stopped"}, why \in Ends : Exits(q, next, why)
    BY <1>2 DEF OpenFails, ListenFails, Drained, ShutdownExpires, Crash, Ends
  <2> QED
    BY <1>0, <2>1, ExitTakesRequests
<1>3. ASSUME NEW q \in Processes, NEW s \in Requests, Accept(s, q)
      PROVE  Held
  <2>1. stage[q] = "serving"
    BY <1>3 DEF Accept, TypeOK
  <2> QED
    BY <1>0, <1>3, <2>1 DEF Accept
<1>4. ASSUME NEW q \in Processes, ListenAndServe(q) \/ ErrServerClosed(q)
      PROVE  Held
  BY <1>0, <1>4 DEF ListenAndServe, ErrServerClosed
<1>5. ASSUME NEW s \in Requests, Answer(s) \/ CreateRecord(s) \/ DeleteRecord(s)
      PROVE  Held
  <2>1. Answered(s)
    BY <1>5 DEF Answer, CreateRecord, DeleteRecord
  <2>2. "answered" \notin Processes
    BY DEF StartupAssumption, Ends
  <2> QED
    BY <1>0, <2>1, <2>2 DEF Answered
<1>6. CASE Quiet \/ UNCHANGED vars
  BY <1>0, <1>6 DEF Quiet, vars
<1> QED
  BY <1>1, <1>2, <1>3, <1>4, <1>5, <1>6 DEF Next

LEMMA AllOrNothingKept ==
    ASSUME StartupAssumption, Inv, [Next]_vars
    PROVE  AllOrNothing'
<1> SUFFICES ASSUME NEW t \in Tables
             PROVE  Seeded(t)' \/ Unused(t)' = Codes
  BY DEF AllOrNothing
<1>1. CASE Seeded(t)
  BY <1>1, SeededStays DEF Inv
<1>2. CASE Unused(t) = Codes
  <2>1. CASE UNCHANGED tables
    BY <1>2, <2>1 DEF Unused
  <2>2. ASSUME NEW p \in Processes, SeedsTable(p)
        PROVE  Seeded(t)' \/ Unused(t)' = Codes
    <3>1. at[p] \in Tables /\ Seeds[at[p]] \in SUBSET Codes
      BY <2>2 DEF SeedsTable, Inv, TypeOK, StartupAssumption
    <3>2. \A c \in Codes : tables'[t][c] = IF t = at[p] /\ c \in Seeds[at[p]]
                                           THEN "live" ELSE tables[t][c]
      BY <2>2, <3>1, InsertedTable DEF SeedsTable, Inv
    <3> QED
      BY <1>2, <3>2 DEF Seeded, Unused
  <2>3. ASSUME NEW r \in Requests, CreateRecord(r) \/ DeleteRecord(r)
        PROVE  Seeded(t)
    BY <2>3, WritingRequest DEF Inv, RunsInServer, ServedIsSeeded
  <2> QED
    BY <1>1, <2>1, <2>2, <2>3, TableSteps, SeededStays DEF Inv
<1> QED
  BY <1>1, <1>2 DEF Inv, AllOrNothing

\* A process goes on from a table that has its seeds, and comes past all of them.
LEMMA SeedingKept ==
    ASSUME StartupAssumption, Inv, [Next]_vars
    PROVE  LeftBehind' /\ ServedIsSeeded'
<1> USE DEF Tables, User, PriorityDecision
<1> SUFFICES ASSUME NEW p \in Processes
             PROVE  /\ stage'[p] \in {"connecting", "migrating"} => at'[p] = User
                    /\ stage'[p] = "seeding" => \A t \in Tables : t < at'[p] => Seeded(t)'
                    /\ stage'[p] \in {"redis", "serving", "stopping"} =>
                          \A t \in Tables : Seeded(t)'
  BY DEF LeftBehind, ServedIsSeeded
<1>1. \A t \in Tables : Seeded(t) => Seeded(t)'
  BY SeededStays DEF Inv
<1>2. /\ stage \in [Processes -> Up \cup {"down", "stopped"}]
      /\ at \in [Processes -> Nat]
      /\ empty \in [Processes -> BOOLEAN]
  BY DEF Inv, TypeOK
<1>3. CASE stage[p] = "seeding" /\ NextTable(p) /\ (Live(at[p]) # {} \/ SeedsTable(p))
  <2>1. at[p] \in Tables
    BY <1>3 DEF Inv, TypeOK
  <2>2. ASSUME NEW t \in Tables, t = at[p] PROVE Seeded(t)'
    <3>1. CASE Live(t) # {}
      <4>1. Seeded(t)
        BY <3>1 DEF Inv, AllOrNothing, Live, Unused
      <4> QED
        BY <1>1, <4>1
    <3>2. CASE SeedsTable(p)
      <4>1. Seeds[t] \in SUBSET Codes
        BY DEF StartupAssumption
      <4>2. \A c \in Seeds[t] : tables'[t][c] = "live"
        BY <2>2, <3>2, <4>1, InsertedTable DEF SeedsTable, Inv
      <4> QED
        BY <4>1, <4>2 DEF Seeded, Unused
    <3> QED
      BY <1>3, <2>2, <3>1, <3>2
  <2>3. \A t \in Tables : t < at[p] + 1 => Seeded(t)'
    <3>1. \A t \in Tables : t < at[p] => Seeded(t)
      BY <1>3 DEF Inv, LeftBehind
    <3>2. \A t \in Tables : t < at[p] + 1 => t < at[p] \/ t = at[p]
      BY <2>1
    <3> QED
      BY <1>1, <2>2, <3>1, <3>2
  <2>4. /\ at'[p] = at[p] + 1
        /\ stage'[p] = IF at[p] = 5 THEN "redis" ELSE "seeding"
    BY <1>2, <1>3 DEF NextTable
  <2>5. CASE at[p] = 5
    <3>1. \A t \in Tables : Seeded(t)'
      BY <2>3, <2>5
    <3> QED
      BY <2>4, <2>5, <3>1
  <2>6. CASE at[p] # 5
    BY <2>3, <2>4, <2>6
  <2> QED
    BY <2>5, <2>6
<1>4. CASE stage[p] = "migrating" /\ stage'[p] = "seeding" /\ at'[p] = at[p]
  <2>1. at'[p] = 1
    BY <1>4 DEF Inv, LeftBehind
  <2> QED
    BY <1>4, <2>1
<1>5. CASE stage'[p] = stage[p] /\ at'[p] = at[p]
  BY <1>1, <1>5 DEF Inv, LeftBehind, ServedIsSeeded
<1>6. CASE \/ stage'[p] \in {"down", "stopped"}
           \/ stage'[p] = "connecting" /\ at'[p] = User
           \/ stage[p] = "connecting" /\ stage'[p] = "migrating" /\ at'[p] = at[p]
  BY <1>6 DEF Inv, LeftBehind
<1>7. CASE \/ stage[p] = "redis" /\ stage'[p] = "serving"
           \/ stage[p] = "serving" /\ stage'[p] = "stopping"
  BY <1>1, <1>7 DEF Inv, LeftBehind, ServedIsSeeded
<1> QED
  BY <1>3, <1>4, <1>5, <1>6, <1>7, StageSteps DEF Inv

LEMMA InitInv ==
    ASSUME StartupAssumption, Init
    PROVE  Inv
<1> USE DEF Tables, User, PriorityDecision
<1>1. TypeOK
  BY DEF Init, TypeOK, StartupAssumption, Up, Opening, Ends
<1>2. AllOrNothing
  BY DEF Init, AllOrNothing, Unused
<1>3. LeftBehind /\ ServedIsSeeded
  BY DEF Init, LeftBehind, ServedIsSeeded
<1>4. RunsInServer
  BY DEF Init, RunsInServer, StartupAssumption, Ends
<1> QED
  BY <1>1, <1>2, <1>3, <1>4 DEF Inv

LEMMA InvKept ==
    ASSUME StartupAssumption, Inv, [Next]_vars
    PROVE  Inv'
  BY TypeKept, AllOrNothingKept, SeedingKept, RunsInServerKept DEF Inv

LEMMA Invariance == Spec => []Inv
<1>1. Init => Inv
  BY InitInv, StartupAssumption
<1>2. Inv /\ [Next]_vars => Inv'
  BY InvKept, StartupAssumption
<1> QED
  BY <1>1, <1>2, PTL DEF Spec

-----------------------------------------------------------------------------
(* The theorems.                                                           *)

\* The state of processes, tables and requests always has its shape, for any
\* processes, seeds and numbers of attempts and faults.
THEOREM StartupTypeCorrect == Spec => []TypeOK
<1>1. Inv => TypeOK
  BY DEF Inv
<1> QED
  BY <1>1, Invariance, PTL

\* No process serves a database whose seeding was cut off, lost a race or met
\* deleted records, because a table is never half seeded and no start skips an
\* unused one.
THEOREM ServersAreSeeded == Spec => []ServedIsSeeded
<1>1. Inv => ServedIsSeeded
  BY DEF Inv
<1> QED
  BY <1>1, Invariance, PTL

\* A start writes nothing but the seeds of a table that was never used.
THEOREM StartsLeaveDataAlone == Spec => StartsOnlySeed
<1>1. ASSUME Inv, [Next]_vars, tables' # tables, request' = request
      PROVE  \E t \in Tables : /\ Unused(t) = Codes
                               /\ tables' = Inserted(t, Seeds[t])
  <2>1. ASSUME NEW r \in Requests, CreateRecord(r) \/ DeleteRecord(r)
        PROVE  FALSE
    <3>1. /\ request[r] \in Processes
          /\ request'[r] = "answered"
      BY <1>1, <2>1, WritingRequest DEF Inv, TypeOK
    <3>2. "answered" \notin Processes
      BY StartupAssumption DEF StartupAssumption, Ends
    <3> QED
      BY <1>1, <3>1, <3>2
  <2>2. PICK p \in Processes : SeedsTable(p)
    BY <1>1, <2>1, TableSteps DEF Inv
  <2>3. at[p] \in Tables /\ Seeds[at[p]] # {} /\ Seeds[at[p]] \subseteq Unused(at[p])
    BY <1>1, <2>2, StartupAssumption DEF SeedsTable, Inv, TypeOK, StartupAssumption
  <2>4. ~Seeded(at[p])
    BY <2>3 DEF Seeded
  <2>5. Unused(at[p]) = Codes
    BY <1>1, <2>3, <2>4 DEF Inv, AllOrNothing
  <2> QED
    BY <2>2, <2>3, <2>5 DEF SeedsTable
<1>2. Inv /\ [Next]_vars => [(tables' # tables /\ request' = request) =>
          \E t \in Tables : /\ Unused(t) = Codes
                            /\ tables' = Inserted(t, Seeds[t])]_vars
  BY <1>1
<1> QED
  BY <1>2, Invariance, PTL DEF Spec, StartsOnlySeed

\* Only its timeout or a kill keeps a stop from answering what was accepted, however
\* the listener's goroutine and main take turns.
THEOREM StopsDrain == Spec => StopDrains
<1>1. ASSUME Inv, [Next]_vars, NEW r \in Requests, request[r] \in Processes,
             stage[request[r]] = "stopping"
      PROVE  request'[r] \in {request[r], "answered", "timeout", "crash"}
  <2> DEFINE Drains == request'[r] \in {request[r], "answered", "timeout", "crash"}
  <2>0. request \in [Requests -> Processes \cup Ends]
    BY <1>1 DEF Inv, TypeOK
  <2>1. ASSUME NEW q \in Processes,
               \/ OpenFails(q) \/ ListenFails(q) \/ Drained(q)
               \/ ShutdownExpires(q) \/ Crash(q)
        PROVE  Drains
    <3>1. CASE request[r] # q
      <4>1. PICK next \in {"down", "stopped"}, why \in Ends : Exits(q, next, why)
        BY <2>1 DEF OpenFails, ListenFails, Drained, ShutdownExpires, Crash, Ends
      <4> QED
        BY <1>1, <3>1, <4>1, ExitTakesRequests, StartupAssumption DEF Inv
    <3>2. CASE request[r] = q
      <4>1. ~OpenFails(q) /\ ~ListenFails(q)
        BY <1>1, <3>2 DEF OpenFails, Opening, ListenFails, Inv, TypeOK
      <4>2. ~Drained(q)
        BY <3>2 DEF Drained, RequestsOf
      <4>3. PICK why \in {"timeout", "crash"} :
               Exits(q, "stopped", why) \/ Exits(q, "down", why)
        BY <2>1, <4>1, <4>2 DEF ShutdownExpires, Crash
      <4> QED
        BY <1>1, <3>2, <4>3, ExitTakesRequests, StartupAssumption DEF Inv, Ends
    <3> QED
      BY <3>1, <3>2
  <2>2. ASSUME NEW q \in Processes,
               \/ Start(q) \/ Connect(q) \/ NotReady(q, TRUE) \/ NotReady(q, FALSE)
               \/ migrate(q) \/ Count(q) \/ Insert(q) \/ PingRedis(q) \/ Shutdown(q)
               \/ ListenAndServe(q) \/ ErrServerClosed(q)
        PROVE  UNCHANGED request
    BY <2>2 DEF Start, Connect, NotReady, migrate, Count, Insert, PingRedis,
         Shutdown, ListenAndServe, ErrServerClosed
  <2>3. ASSUME NEW q \in Processes, NEW s \in Requests, Accept(s, q)
        PROVE  Drains
    <3>1. "idle" \notin Processes
      BY StartupAssumption DEF StartupAssumption, Ends
    <3> QED
      BY <1>1, <2>0, <2>3, <3>1 DEF Accept
  <2>4. ASSUME NEW s \in Requests, Answer(s) \/ CreateRecord(s) \/ DeleteRecord(s)
        PROVE  Drains
    BY <2>0, <2>4 DEF Answer, CreateRecord, DeleteRecord, Answered
  <2>5. CASE Quiet \/ UNCHANGED vars
    BY <2>5 DEF Quiet, vars
  <2> QED
    BY <1>1, <2>1, <2>2, <2>3, <2>4, <2>5 DEF Next
<1>2. Inv /\ [Next]_vars =>
        [\A r \in Requests :
            request[r] \in Processes /\ stage[request[r]] = "stopping" =>
              request'[r] \in {request[r], "answered", "timeout", "crash"}]_vars
  BY <1>1
<1> QED
  BY <1>2, Invariance, PTL DEF Spec, StopDrains

=============================================================================
