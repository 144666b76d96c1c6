---------------------------- MODULE MCBankingEnv ----------------------------
(* A small instance of BankingEnv: three documents, the three routes, the   *)
(* boundary between two of them, and a handful of judgements.              *)
EXTENDS BankingEnv, TLC

MCDocuments ==
    [policy  |-> [kind |-> "policy", status |-> "CURRENT", minute |-> 3],
     record  |-> [kind |-> "record", status |-> "CURRENT", minute |-> 2],
     control |-> [kind |-> "control", status |-> "CURRENT", minute |-> 4]]

MCNames == DOMAIN MCDocuments \union {"old_policy"}

CaseOf(supported, risk, journaled) ==
    [supported |-> supported, risk |-> risk, limit |-> 5, target |-> 2,
     initial |-> 0, journaled |-> journaled]

MCCases == {CaseOf(TRUE, 5, TRUE), CaseOf(TRUE, 6, FALSE),
            CaseOf(FALSE, 6, TRUE)}

Complete3 == {"policy", "record", "control"}

Judged(policy, v, diagnosis, route, citations) ==
    [policy |-> policy, value |-> v, diagnosis |-> diagnosis, route |-> route,
     citations |-> citations]

MCJudgements ==
    {Judged("policy", 2, "within_authority", "execute", Complete3),
     Judged("policy", 2, "approval_required", "approve", Complete3),
     Judged("policy", 2, "missing_evidence", "escalate", Complete3),
     Judged("policy", 3, "approval_required", "approve", Complete3),
     Judged("old_policy", 2, "within_authority", "execute", Complete3),
     Judged("policy", 2, "within_authority", "execute", {"policy", "record"})}

\* No guard reads the last reply, so states that differ only in it are one.
View == <<case, read, requests, inspected, state, safety>>

KeySymmetry == Permutations(RequestIds)
=============================================================================
