SPECIFICATION Spec
CONSTANTS
    Documents <- MCDocuments
    Names <- MCNames
    Cutoff = 4
    Cases <- MCCases
    Judgements <- MCJudgements
    RequestIds = {k1, k2, k3, k4}
    Versions = {0, 1, 2, 3}
    Operations = {"gold_operation", "unsupported"}
    GoldOperation = "gold_operation"
    Owners = {"gold_owner", "wrong_queue"}
    GoldOwner = "gold_owner"
    Fabricated = fabricated
SYMMETRY KeySymmetry
VIEW View
INVARIANTS
    VersionLedger
    ExactlyOnce
    OutcomeIsTrue
PROPERTIES
    VerdictsStand
    ImplementsControl
CHECK_DEADLOCK FALSE
