SPECIFICATION JobSpec
CONSTANTS
    MaxRetries = 1
    Retryable = {"503"}
    Terminal = {"400"}
    AllSurfaces = {"cases"}
    Episode <- MCEpisode
    Responses <- MCResponses
INVARIANT ReceiptsAreVerified
CHECK_DEADLOCK FALSE
