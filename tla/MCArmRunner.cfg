SPECIFICATION JobSpec
CONSTANTS
    MaxRetries = 1
    Retryable = {"503"}
    Terminal = {"400"}
    AllSurfaces = {"cases"}
    Episode <- MCEpisode
    Responses <- MCResponses
INVARIANTS
    CompletedIsEarned
    VerifiedExactly
    RefusedExactly
PROPERTIES
    AnswersAreFinal
    ImplementsContract
CHECK_DEADLOCK FALSE
