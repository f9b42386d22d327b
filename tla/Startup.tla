------------------------------- MODULE Startup -------------------------------
(***************************************************************************)
(* A server process from its start to its exit: backend/cmd/server/main.go  *)
(* and backend/internal/database/database.go.  Several processes, or the    *)
(* same one again after a crash, start over one database while others serve *)
(* requests that create and delete records.                                *)
(*                                                                         *)
(* A process connects, migrates, seeds table after table, pings Redis and   *)
(* listens.  A table is seeded if it has no live record: one query counts,  *)
(* and one statement or transaction inserts, which the unique index on the  *)
(* code refuses when a seed is there, deleted or not.  A priority decision  *)
(* stands for its row and the revisions inserted in its transaction.       *)
(***************************************************************************)
EXTENDS Naturals

CONSTANTS
    Processes,      \* server processes
    Requests,       \* request ids, each used once
    Codes,          \* usernames and codes of records
    Seeds,          \* the codes Seed inserts into each table
    Own,            \* bound: codes that callers create in each table
    Reviewed,       \* seeded decisions with a final status, never deleted
    MaxAttempts,    \* attempts to connect (20)
    MaxFaults       \* bound: failing calls, crashes and stops, all told

\* The tables in the order in which Seed visits them.
User             == 1
BridgeAsset      == 2
InspectionRound  == 3
DefectFinding    == 4
PriorityDecision == 5
Tables == User .. PriorityDecision

Opening == {"connecting", "migrating", "seeding", "redis"}
Up      == Opening \cup {"serving", "stopping"}
Ends    == {"idle", "answered", "crash", "timeout", "listener"}

ASSUME StartupAssumption ==
    /\ Seeds \in [Tables -> SUBSET Codes]
    /\ \A t \in Tables : Seeds[t] # {}
    /\ Own \in [Tables -> SUBSET Codes]
    /\ MaxAttempts \in Nat \ {0}
    /\ MaxFaults \in Nat
    /\ Ends \cap Processes = {}

VARIABLES
    tables,     \* each table: which codes are absent, live or soft deleted
    stage,      \* where each process is
    attempt,    \* its attempts to connect
    at,         \* the table it seeds
    empty,      \* it counted no live record there
    listener,   \* its goroutine in ListenAndServe
    request,    \* the process each request runs in, or how it ended
    faults      \* what has gone wrong so far

opening == <<attempt, at, empty>>
vars    == <<tables, stage, opening, listener, request, faults>>

Init ==
    /\ tables = [t \in Tables |-> [c \in Codes |-> "absent"]]
    /\ stage = [p \in Processes |-> "down"]
    /\ attempt = [p \in Processes |-> 1]
    /\ at = [p \in Processes |-> User]
    /\ empty = [p \in Processes |-> FALSE]
    /\ listener = [p \in Processes |-> "none"]
    /\ request = [r \in Requests |-> "idle"]
    /\ faults = 0

RequestsOf(p) == {r \in Requests : request[r] = p}

\* The process ends, with its requests.
Exits(p, next, why) ==
    /\ stage' = [stage EXCEPT ![p] = next]
    /\ listener' = [listener EXCEPT ![p] = "none"]
    /\ request' = [r \in Requests |-> IF r \in RequestsOf(p) THEN why ELSE request[r]]
    /\ UNCHANGED <<tables, opening>>

Fault == faults < MaxFaults /\ faults' = faults + 1

-----------------------------------------------------------------------------
(* Opening the database.                                                   *)

\* The restart policy of the container, or the operator after a stop.
Start(p) ==
    /\ stage[p] \in {"down", "stopped"}
    /\ stage' = [stage EXCEPT ![p] = "connecting"]
    /\ attempt' = [attempt EXCEPT ![p] = 1]
    /\ at' = [at EXCEPT ![p] = User]
    /\ empty' = [empty EXCEPT ![p] = FALSE]
    /\ UNCHANGED <<tables, listener, request, faults>>

Connect(p) ==
    /\ stage[p] = "connecting"
    /\ stage' = [stage EXCEPT ![p] = "migrating"]
    /\ UNCHANGED <<tables, opening, listener, request, faults>>

\* The ping fails, and the one that asks for its error may not: then the error is
\* forgotten, and after the last attempt the process goes on.
NotReady(p, lastError) ==
    /\ stage[p] = "connecting"
    /\ Fault
    /\ IF attempt[p] < MaxAttempts
       THEN /\ attempt' = [attempt EXCEPT ![p] = @ + 1]
            /\ UNCHANGED stage
       ELSE /\ stage' = [stage EXCEPT ![p] = IF lastError THEN "down" ELSE "migrating"]
            /\ UNCHANGED attempt
    /\ UNCHANGED <<tables, at, empty, listener, request>>

migrate(p) ==
    /\ stage[p] = "migrating"
    /\ stage' = [stage EXCEPT ![p] = "seeding"]
    /\ UNCHANGED <<tables, opening, listener, request, faults>>

Live(t)   == {c \in Codes : tables[t][c] = "live"}
Unused(t) == {c \in Codes : tables[t][c] = "absent"}

\* Mutant: one table too many.
NextTablePast(p) ==
    /\ at' = [at EXCEPT ![p] = @ + 1]
    /\ stage' = [stage EXCEPT ![p] = IF at[p] > PriorityDecision THEN "redis" ELSE "seeding"]
    /\ empty' = [empty EXCEPT ![p] = FALSE]

\* On to the next table, or to Redis after the last.
NextTable(p) ==
    /\ at' = [at EXCEPT ![p] = @ + 1]
    /\ stage' = [stage EXCEPT ![p] = IF at[p] = PriorityDecision THEN "redis" ELSE "seeding"]
    /\ empty' = [empty EXCEPT ![p] = FALSE]

\* Mutant: the count is not looked at.
CountIgnored(p) ==
    /\ stage[p] = "seeding"
    /\ ~empty[p]
    /\ empty' = [empty EXCEPT ![p] = TRUE]
    /\ UNCHANGED <<tables, stage, attempt, at, listener, request, faults>>

\* The query leaves out soft deleted records.
Count(p) ==
    /\ stage[p] = "seeding"
    /\ ~empty[p]
    /\ IF Live(at[p]) = {}
       THEN /\ empty' = [empty EXCEPT ![p] = TRUE]
            /\ UNCHANGED <<stage, at>>
       ELSE NextTable(p)
    /\ UNCHANGED <<tables, attempt, listener, request, faults>>

Inserted(t, codes) ==
    [tables EXCEPT ![t] = [c \in Codes |-> IF c \in codes THEN "live" ELSE @[c]]]

\* Mutant: the seeds are inserted one by one, and the process may stop in between.
InsertPartly(p) ==
    /\ stage[p] = "seeding"
    /\ empty[p]
    /\ IF Seeds[at[p]] \subseteq Unused(at[p])
       THEN \E codes \in SUBSET Seeds[at[p]] :
               /\ tables' = Inserted(at[p], codes)
               /\ IF codes = Seeds[at[p]] THEN NextTable(p)
                  ELSE /\ stage' = [stage EXCEPT ![p] = "down"]
                       /\ UNCHANGED <<at, empty>>
       ELSE /\ stage' = [stage EXCEPT ![p] = "down"]
            /\ UNCHANGED <<tables, at, empty>>
    /\ UNCHANGED <<attempt, listener, request, faults>>

\* Mutant: a conflict on the code is resolved by an update.
InsertOrRevive(p) ==
    /\ stage[p] = "seeding"
    /\ empty[p]
    /\ tables' = Inserted(at[p], Seeds[at[p]])
    /\ NextTable(p)
    /\ UNCHANGED <<attempt, listener, request, faults>>

\* All seeds of the table, or none and the process gives up.
Insert(p) ==
    /\ stage[p] = "seeding"
    /\ empty[p]
    /\ IF Seeds[at[p]] \subseteq Unused(at[p])
       THEN /\ tables' = Inserted(at[p], Seeds[at[p]])
            /\ NextTable(p)
       ELSE /\ stage' = [stage EXCEPT ![p] = "down"]
            /\ UNCHANGED <<tables, at, empty>>
    /\ UNCHANGED <<attempt, listener, request, faults>>

\* Open returns, and main starts the listener.  Redis may be left out.
PingRedis(p) ==
    /\ stage[p] = "redis"
    /\ stage' = [stage EXCEPT ![p] = "serving"]
    /\ listener' = [listener EXCEPT ![p] = "starting"]
    /\ UNCHANGED <<tables, opening, request, faults>>

\* A call fails, or STARTUP_TIMEOUT ends while it runs.
OpenFails(p) ==
    /\ stage[p] \in Opening
    /\ Fault
    /\ Exits(p, "down", "crash")

-----------------------------------------------------------------------------
(* Serving and shutting down.                                              *)

ListenAndServe(p) ==
    /\ listener[p] = "starting"
    /\ listener' = [listener EXCEPT ![p] = "listening"]
    /\ UNCHANGED <<tables, stage, opening, request, faults>>

\* The address is in use, or accepting fails: the goroutine ends the process.
ListenFails(p) ==
    /\ listener[p] \in {"starting", "listening"}
    /\ Fault
    /\ Exits(p, "down", "listener")

Accept(r, p) ==
    /\ listener[p] = "listening"
    /\ request[r] = "idle"
    /\ request' = [request EXCEPT ![r] = p]
    /\ UNCHANGED <<tables, stage, opening, listener, faults>>

Answered(r) ==
    /\ request[r] \in Processes
    /\ request' = [request EXCEPT ![r] = "answered"]
    /\ UNCHANGED <<stage, opening, listener, faults>>

Answer(r) == Answered(r) /\ UNCHANGED tables

CreateRecord(r) ==
    /\ Answered(r)
    /\ \E t \in Tables : \E c \in Own[t] \cap Unused(t) : tables' = Inserted(t, {c})

\* No operation deletes a user, or a decision that was reviewed.
Deletable(t) ==
    IF t = User THEN {}
    ELSE IF t = PriorityDecision THEN Live(t) \ Reviewed ELSE Live(t)

DeleteRecord(r) ==
    /\ Answered(r)
    /\ \E t \in Tables : \E c \in Deletable(t) :
          tables' = [tables EXCEPT ![t][c] = "deleted"]

\* SIGINT or SIGTERM: Shutdown closes the listener first.
Shutdown(p) ==
    /\ stage[p] = "serving"
    /\ Fault
    /\ stage' = [stage EXCEPT ![p] = "stopping"]
    /\ listener' = [listener EXCEPT ![p] = "closed"]
    /\ UNCHANGED <<tables, opening, request>>

\* Mutant: any error of the listener ends the process.
AnyErrorExits(p) ==
    /\ listener[p] = "closed"
    /\ Exits(p, "down", "listener")
    /\ UNCHANGED faults

\* ErrServerClosed comes back at once, while requests still run, and is ignored.
ErrServerClosed(p) ==
    /\ listener[p] = "closed"
    /\ listener' = [listener EXCEPT ![p] = "returned"]
    /\ UNCHANGED <<tables, stage, opening, request, faults>>

Drained(p) ==
    /\ stage[p] = "stopping"
    /\ RequestsOf(p) = {}
    /\ Exits(p, "stopped", "answered")
    /\ UNCHANGED faults

\* SHUTDOWN_TIMEOUT ends while requests run.
ShutdownExpires(p) ==
    /\ stage[p] = "stopping"
    /\ RequestsOf(p) # {}
    /\ Exits(p, "stopped", "timeout")
    /\ UNCHANGED faults

\* The process is killed; before main asks for signals, one of them does.
Crash(p) ==
    /\ stage[p] \in Up
    /\ Fault
    /\ Exits(p, "down", "crash")

\* Every process listens, and waits.
Quiet ==
    /\ \A p \in Processes : listener[p] = "listening"
    /\ UNCHANGED vars

Next ==
    \/ \E p \in Processes :
          \/ Start(p) \/ Connect(p) \/ NotReady(p, TRUE) \/ NotReady(p, FALSE)
          \/ migrate(p) \/ Count(p) \/ Insert(p) \/ PingRedis(p) \/ OpenFails(p)
          \/ ListenAndServe(p) \/ ListenFails(p) \/ ErrServerClosed(p)
          \/ Shutdown(p) \/ Drained(p) \/ ShutdownExpires(p) \/ Crash(p)
          \/ \E r \in Requests : Accept(r, p)
    \/ \E r \in Requests : Answer(r) \/ CreateRecord(r) \/ DeleteRecord(r)
    \/ Quiet

\* A process is started again after it failed, not after it was stopped; its calls
\* return; SHUTDOWN_TIMEOUT ends.  Nothing is assumed of requests.
Fairness ==
    \A p \in Processes :
        /\ WF_vars(stage[p] = "down" /\ Start(p))
        /\ WF_vars(Connect(p) \/ migrate(p) \/ Count(p) \/ Insert(p) \/ PingRedis(p))
        /\ WF_vars(ListenAndServe(p))
        /\ WF_vars(Drained(p) \/ ShutdownExpires(p))

Spec == Init /\ [][Next]_vars /\ Fairness

-----------------------------------------------------------------------------
(* What a start and a stop promise.                                        *)

\* The state has its shape; a process that seeds is at a table, and only a process
\* that opened its database has a listener.
TypeOK ==
    /\ tables \in [Tables -> [Codes -> {"absent", "live", "deleted"}]]
    /\ stage \in [Processes -> Up \cup {"down", "stopped"}]
    /\ attempt \in [Processes -> 1 .. MaxAttempts]
    /\ at \in [Processes -> Nat]
    /\ empty \in [Processes -> BOOLEAN]
    /\ listener \in [Processes -> {"none", "starting", "listening", "closed", "returned"}]
    /\ request \in [Requests -> Processes \cup Ends]
    /\ faults \in 0 .. MaxFaults
    /\ \A p \in Processes :
          /\ stage[p] \in {"connecting", "migrating", "seeding"} => at[p] \in Tables
          /\ listener[p] # "none" => stage[p] \in {"serving", "stopping"}
          /\ listener[p] \in {"starting", "listening"} => stage[p] = "serving"

Seeded(t) == Seeds[t] \cap Unused(t) = {}

\* A process that serves requests, or still finishes some, serves a database in which
\* every table got all its seeds, however many starts were cut off between or within
\* tables, lost the race to another process, or found a database in use.
ServedIsSeeded ==
    \A p \in Processes :
        stage[p] \in {"serving", "stopping"} => \A t \in Tables : Seeded(t)

\* A start writes a table only to give one that was never used all its seeds:
\* it completes no half seeded table, repeats no seed and revives no deleted one.
StartsOnlySeed ==
    [][(tables' # tables /\ request' = request) =>
          \E t \in Tables : /\ Unused(t) = Codes
                            /\ tables' = Inserted(t, Seeds[t])]_vars

\* What was accepted before a stop is answered before the process ends, unless
\* SHUTDOWN_TIMEOUT ends or the process is killed: the listener's goroutine,
\* which returns at once, must not take the process down.
StopDrains ==
    [][\A r \in Requests :
          request[r] \in Processes /\ stage[request[r]] = "stopping" =>
              request'[r] \in {request[r], "answered", "timeout", "crash"}]_vars

\* Seeding sees no live record in a table whose records were all deleted.
Emptied == \E t \in Tables : Live(t) = {} /\ Unused(t) # Codes

\* A process comes up, whoever races it and whatever failed before, and a stop ends,
\* however long requests take; unless a table was emptied: from then on no start gets
\* past that table.
StartsUnlessEmptied ==
    \A p \in Processes :
        <>[](stage[p] \in {"serving", "stopped"}) \/ <>[]Emptied

=============================================================================
