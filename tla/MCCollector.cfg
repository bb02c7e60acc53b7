SPECIFICATION Spec
CONSTANTS
    Magnitude = 2
    MaxTrackable = 7
    Stages <- MCStages
    Plans <- MCPlans
    ArtifactLimit = 1
INVARIANTS
    BucketsTile
    SettledSummaryExact
    TornSummaryBounded
    SeriesByTheSecond
    ArtifactsWithinLimit
