--------------------------- MODULE MCBankingReplay ---------------------------
(* Every route, both sides of the approval limit, every variant.            *)
EXTENDS BankingReplay

MCDocuments ==
    [policy     |-> [kind |-> "policy", status |-> "CURRENT", minute |-> 3],
     old_policy |-> [kind |-> "policy", status |-> "ARCHIVED", minute |-> 1],
     new_policy |-> [kind |-> "policy", status |-> "CURRENT", minute |-> 9],
     record     |-> [kind |-> "record", status |-> "CURRENT", minute |-> 2],
     control    |-> [kind |-> "control", status |-> "CURRENT", minute |-> 4]]

MCNames == DOMAIN MCDocuments \union {"nonexistent"}

MCCases == [supported : BOOLEAN, risk : {4, 5, 6}, limit : {5}, target : {0, 2},
            initial : {0, 1}, journaled : BOOLEAN]

MCJudgements == {}

MCAttackNames ==
    {"none", "wrong_calculation", "wrong_diagnosis", "wrong_route",
     "wrong_policy", "missing_citations", "fabricated_citation",
     "wrong_closure", "fabricated_receipt", "stale_version",
     "wrong_escalation_owner", "wrong_operation", "omit_read_document",
     "omit_inspect", "omit_close", "omit_request_approval"}
=============================================================================
