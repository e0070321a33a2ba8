\* One initiator (A) whose user may send three times over a FIFO network
\* that may lose two messages; Rand never fails.
CONSTANTS
    A = A
    B = B
    Parties <- MCParties
    AllowedVersions <- MCAllowBoth
    RequireEncryption <- MCOnlyARequires
    InitVersion <- MCVersion3
    Tags <- MCTags
    MaxDraws = 6
    MaxSends = 3
    Lossy = TRUE
    Duplicating = FALSE
    RandFails = FALSE
    Ordered = TRUE
    MaxMsgs = 12
    MaxFaults = 2
    Injecting = {}
    UserQueries = {}
SPECIFICATION Spec
PROPERTY RetryRecovers AkeRefinement
\* The library is reactive: with no message in flight and no Send left it stops.
CHECK_DEADLOCK FALSE
