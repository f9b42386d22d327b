----------------------------- MODULE MCWorkbench -----------------------------
(* An instance of Workbench for TLC: an operator who prepared a draft and a   *)
(* reviewer, at one browser and without.                                    *)
EXTENDS Workbench, TLC

CONSTANTS r1, r2, l1

MCRole == [u \in Users |->
             CASE u = "olga" -> "operator" [] u = "rita" -> "reviewer"
               [] u = "adam" -> "admin"]

MCSeed == "PD-001" :> "draft"

MCSymmetry == Permutations({r1, r2})

===========================================================================
