------------------------ MODULE MCPriorityDecision ------------------------
(* Instances of PriorityDecision for TLC: an operator, a reviewer and an    *)
(* admin (and, where the gates matter, a viewer) work on a seeded draft and *)
(* on a code not yet used.                                                 *)
EXTENDS PriorityDecisionRefinement, TLC

CONSTANTS r1, r2, r3

MCRole == [u \in Users |->
             CASE u = "olga" -> "operator" [] u = "rita" -> "reviewer"
               [] u = "adam" -> "admin"    [] u = "vera" -> "viewer"]

\* PD-001 is the seeded draft, PD-002 the seeded final decision.
MCSeedDraft == "PD-001" :> "draft"
MCSeedBoth  == "PD-001" :> "draft" @@ "PD-002" :> "observe"

MCSymmetry == Permutations({r1, r2, r3})

===========================================================================
