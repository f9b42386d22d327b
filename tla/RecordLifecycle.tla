--------------------------- MODULE RecordLifecycle ---------------------------
(***************************************************************************)
(* What a record service promises, without requests: a record is registered *)
(* once under its code, in the initial status; from then on it is edited    *)
(* without moving, moved along the status graph without being edited, each  *)
(* time under the next version, or removed once for good.                  *)
(***************************************************************************)
EXTENDS Naturals

CONSTANTS Codes, Contents, Service, SeedRecords, None

VARIABLES
    records,    \* the record of each registered code
    removed     \* codes of removed records

rvars == <<records, removed>>

Record(status, version, content) ==
    [status |-> status, version |-> version, content |-> content]

Present(c) == records[c] # None /\ c \notin removed

LifecycleInit == records = SeedRecords /\ removed = {}

Register(c, k) ==
    /\ records[c] = None
    /\ records' = [records EXCEPT ![c] = Record(Service[c].initial, 1, k)]
    /\ UNCHANGED removed

Edit(c, k) ==
    /\ Present(c)
    /\ records' = [records EXCEPT ![c] =
                     Record(records[c].status, records[c].version + 1, k)]
    /\ UNCHANGED removed

Move(c, s) ==
    /\ Present(c)
    /\ <<records[c].status, s>> \in Service[c].graph
    /\ records' = [records EXCEPT ![c] =
                     Record(s, records[c].version + 1, records[c].content)]
    /\ UNCHANGED removed

Remove(c) ==
    /\ Present(c)
    /\ removed' = removed \cup {c}
    /\ UNCHANGED records

LifecycleNext ==
    \E c \in Codes :
        \/ \E k \in Contents : Register(c, k) \/ Edit(c, k)
        \/ \E e \in Service[c].graph : Move(c, e[2])
        \/ Remove(c)

LifecycleSpec == LifecycleInit /\ [][LifecycleNext]_rvars

=============================================================================
