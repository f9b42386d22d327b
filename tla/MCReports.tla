------------------------------ MODULE MCReports ------------------------------
(* An instance of Reports for TLC: an operator and an admin change a seeded   *)
(* draft while a caller reads a report.                                      *)
EXTENDS PriorityDecision, Api, Reports

CONSTANTS r1, r2, q1

MCRole == [u \in Users |->
             CASE u = "olga" -> "operator" [] u = "adam" -> "admin"]

MCSeed == [code \in {"PD-001"} |-> "draft"]

=============================================================================
