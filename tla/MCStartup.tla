------------------------------ MODULE MCStartup ------------------------------
(* An instance of Startup for TLC: one record of each kind that can be        *)
(* deleted, a draft and a reviewed decision, and a bridge that callers may    *)
(* create.                                                                 *)
EXTENDS Startup, TLC

CONSTANTS p1, p2, r1, r2

MCSeeds == User :> {"admin"} @@ BridgeAsset :> {"BA-001"} @@ InspectionRound :> {"IR-001"}
             @@ DefectFinding :> {"DF-001"} @@ PriorityDecision :> {"PD-001", "PD-002"}

MCOwn == [t \in Tables |-> IF t = BridgeAsset THEN {"BA-009"} ELSE {}]

===========================================================================
