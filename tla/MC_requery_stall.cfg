\* One initiator (A) over a reliable FIFO network, whose user may call
\* Send three times before the AKE completes; every call returns a query.
CONSTANTS
    A = A
    B = B
    Parties <- MCParties
    AllowedVersions <- MCAllowBoth
    RequireEncryption <- MCOnlyARequires
    InitVersion <- MCVersion3
    Tags <- MCTags
    MaxDraws = 6
    MaxSends = 3
    Lossy = FALSE
    Duplicating = FALSE
    RandFails = FALSE
    Ordered = TRUE
    MaxMsgs = 14
    MaxFaults = 0
    Injecting = {}
    UserQueries = {}
SPECIFICATION Spec
PROPERTY Completion
\* The library is reactive: with no message in flight and no Send left it stops.
CHECK_DEADLOCK FALSE
