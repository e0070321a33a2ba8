\* One initiator (A) over a reliable FIFO network: no loss, no duplication,
\* no reordering within a direction; Rand never fails.
CONSTANTS
    A = A
    B = B
    Parties <- MCParties
    AllowedVersions <- MCAllowBoth
    RequireEncryption <- MCOnlyARequires
    InitVersion <- MCVersion3
    Tags <- MCTags
    MaxDraws = 5
    MaxSends = 2
    Lossy = FALSE
    Duplicating = FALSE
    RandFails = FALSE
    Ordered = TRUE
    MaxMsgs = 9
    MaxFaults = 0
    Injecting = {}
    UserQueries = {}
SPECIFICATION Spec
INVARIANT TypeOK
PROPERTY Completion AkeRefinement
\* The library is reactive: with no message in flight and no Send left it stops.
CHECK_DEADLOCK FALSE
