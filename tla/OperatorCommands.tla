--------------------------- MODULE OperatorCommands ---------------------------
(***************************************************************************)
(* The commands of MatchedPlan, EvidencePack and ReleaseAudit at one desk, *)
(* in any order; each may be killed between any two of its steps.          *)
(***************************************************************************)
EXTENDS MatchedPlan, EvidencePack, ReleaseAudit

allVars == <<deskVars, planVars, evidenceVars, releaseVars>>

OperatorInit == DeskInit /\ PlanInit /\ EvidenceInit /\ ReleaseInit

Killed ==
    /\ command # "none" /\ Leave
    /\ UNCHANGED <<planVars, evidenceVars, releaseVars>>

OperatorNext ==
    \/ PlanNext /\ UNCHANGED <<evidenceVars, releaseVars>>
    \/ EvidenceNext /\ UNCHANGED <<planVars, releaseVars>>
    \/ ReleaseNext /\ UNCHANGED <<planVars, evidenceVars>>
    \/ Killed

OperatorSpec == OperatorInit /\ [][OperatorNext]_allVars
=============================================================================
