----------------------------- MODULE CaseControl -----------------------------
(***************************************************************************)
(* What the case environment promises, without requests, keys, versions,   *)
(* documents or receipts: a judgement may be changed until it is approved  *)
(* or acted on, one outcome is booked, it is the judged amount, a material *)
(* case is approved first, an unsupported one is never executed, and       *)
(* sealing the case ends it.                                               *)
(***************************************************************************)
EXTENDS Integers

CONSTANT Amounts    \* amounts that may be judged

VARIABLES
    demand,     \* what the case asks for before money moves
    phase,      \* how far the case has come
    judged,     \* {} or {amount}
    booked,     \* the amount on the books
    sealed

cvars == <<demand, phase, judged, booked, sealed>>

CInit ==
    /\ demand \in {"nothing", "approval", "evidence"}
    /\ phase = "judging" /\ judged = {} /\ booked \in Int /\ sealed = FALSE

Judge ==
    /\ phase = "judging"
    /\ \E v \in Amounts : judged' = {v}
    /\ UNCHANGED <<demand, phase, booked, sealed>>

Approve ==
    /\ phase = "judging" /\ judged # {} /\ demand # "evidence"
    /\ phase' = "approved"
    /\ UNCHANGED <<demand, judged, booked, sealed>>

Book ==
    /\ \/ phase = "judging" /\ demand = "nothing"
       \/ phase = "approved" /\ demand # "evidence"
    /\ judged = {booked'}
    /\ phase' = "executed"
    /\ UNCHANGED <<demand, judged, sealed>>

HandOff ==
    /\ phase \in {"judging", "approved"} /\ judged # {}
    /\ phase' = "escalated"
    /\ UNCHANGED <<demand, judged, booked, sealed>>

Seal ==
    /\ phase \in {"executed", "escalated"} /\ ~sealed
    /\ sealed' = TRUE
    /\ UNCHANGED <<demand, phase, judged, booked>>

CNext == Judge \/ Approve \/ Book \/ HandOff \/ Seal

CSpec == CInit /\ [][CNext]_cvars
=============================================================================
