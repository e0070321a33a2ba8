\* A, created with a nil otrVersion, requires encryption and starts the AKE
\* with B over a reliable FIFO transport.
CONSTANTS
    A = A
    B = B
    Parties <- MCParties
    AllowedVersions <- MCAllowBoth
    RequireEncryption <- MCOnlyARequires
    InitVersion <- MCNilA
    Tags <- MCTags
    MaxDraws = 5
    MaxSends = 2
    Lossy = FALSE
    Duplicating = FALSE
    RandFails = FALSE
    Ordered = TRUE
    MaxMsgs = 9
    MaxFaults = 0
    Injecting = {}
    UserQueries = {}
SPECIFICATION Spec
INVARIANT NoPanic
\* The library is reactive: with no message in flight and no Send left it stops.
CHECK_DEADLOCK FALSE
