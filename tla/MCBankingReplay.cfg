SPECIFICATION ReplaySpec
CONSTANTS
    Documents <- MCDocuments
    Names <- MCNames
    Cutoff = 4
    Cases <- MCCases
    Judgements <- MCJudgements
    RequestIds = {3, 4, 5, 6, 7}
    Versions = {}
    Operations = {"gold_operation", "unsupported"}
    GoldOperation = "gold_operation"
    Owners = {"gold_owner", "wrong_queue"}
    GoldOwner = "gold_owner"
    Fabricated = fabricated
    AttackNames <- MCAttackNames
INVARIANT AttackNeverCompletes
PROPERTIES
    ReferenceCompletes
CHECK_DEADLOCK FALSE
