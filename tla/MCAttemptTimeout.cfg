SPECIFICATION Spec
CONSTANTS
    Verifiers <- MCVerifiers
    Responses <- MCResponses
INVARIANT
    ResponseTimeoutMeansSent
