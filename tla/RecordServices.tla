--------------------------- MODULE RecordServices ---------------------------
(* The three record services, as what sets them apart: the status graph of  *)
(* constants/status.go, the status of a new record, and the statuses of the  *)
(* records that database.go seeds.  The rest of their code is the same, line *)
(* for line, and is in DomainRecord.                                        *)

BridgeAssetTransitions ==
    {<<"active", "restricted">>, <<"active", "closed">>,
     <<"restricted", "closed">>, <<"restricted", "retired">>, <<"restricted", "active">>,
     <<"closed", "retired">>, <<"closed", "restricted">>,
     <<"retired", "closed">>}

InspectionRoundTransitions ==
    {<<"planned", "running">>, <<"planned", "review">>,
     <<"running", "review">>, <<"running", "completed">>, <<"running", "planned">>,
     <<"review", "completed">>, <<"review", "running">>,
     <<"completed", "review">>}

DefectFindingTransitions ==
    {<<"new", "verified">>, <<"new", "monitoring">>,
     <<"verified", "monitoring">>, <<"verified", "mitigated">>, <<"verified", "new">>,
     <<"monitoring", "mitigated">>, <<"monitoring", "closed">>, <<"monitoring", "verified">>,
     <<"mitigated", "closed">>, <<"mitigated", "monitoring">>,
     <<"closed", "mitigated">>}

BridgeAsset     == [graph |-> BridgeAssetTransitions, initial |-> "active"]
InspectionRound == [graph |-> InspectionRoundTransitions, initial |-> "planned"]
DefectFinding   == [graph |-> DefectFindingTransitions, initial |-> "new"]

SeedBridgeAsset     == {<<"BA-001", "active">>, <<"BA-002", "restricted">>, <<"BA-003", "closed">>}
SeedInspectionRound == {<<"IR-001", "planned">>, <<"IR-002", "running">>, <<"IR-003", "review">>}
SeedDefectFinding   == {<<"DF-001", "new">>, <<"DF-002", "verified">>, <<"DF-003", "monitoring">>}

=============================================================================
