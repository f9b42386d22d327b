--------------------------- MODULE MCDomainRecord ---------------------------
(* Instances of DomainRecord for TLC: an operator who may write, an admin    *)
(* who may also delete and a viewer who may do neither, on records of the    *)
(* three services.                                                         *)
EXTENDS DomainRecord, RecordServices, TLC

CONSTANTS r1, r2, r3

MCRole == [u \in Users |->
             CASE u = "olga" -> "operator" [] u = "adam" -> "admin" [] u = "vera" -> "viewer"]

\* IR-009 is not seeded.
MCService == [c \in Codes |->
                CASE c \in {"BA-001", "BA-002"} -> BridgeAsset
                  [] c \in {"IR-001", "IR-009"} -> InspectionRound
                  [] c \in {"DF-001", "DF-003"} -> DefectFinding]

MCStatuses == UNION {{e[1], e[2]} : e \in UNION {Service[c].graph : c \in Codes}}

MCSeeds == SeedBridgeAsset \cup SeedInspectionRound \cup SeedDefectFinding

MCSeedStatus == [c \in Codes \cap {s[1] : s \in MCSeeds} |->
                   (CHOOSE s \in MCSeeds : s[1] = c)[2]]

MCSymmetry == Permutations({r1, r2, r3})

===========================================================================
