SPECIFICATION Spec
CONSTANTS
    Verifiers <- MCVerifiers
    Responses <- MCResponses
INVARIANTS
    FirstFailureClassifies
    DeviationsReported
    BlameIsOurs
    RequestTimeoutMeansUnsent
PROPERTY
    AttemptEnds
