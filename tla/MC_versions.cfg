\* A requires encryption; B was created with a nil otrVersion and its user may
\* type the queries ?OTR? and ?OTRv2?.
CONSTANTS
    A = A
    B = B
    Parties <- MCParties
    AllowedVersions <- MCAllowBoth
    RequireEncryption <- MCOnlyARequires
    InitVersion <- MCNilB
    Tags <- MCTags
    MaxDraws = 5
    MaxSends = 2
    Lossy = FALSE
    Duplicating = FALSE
    RandFails = FALSE
    Ordered = TRUE
    MaxMsgs = 9
    MaxFaults = 0
    Injecting = {}
    UserQueries <- MCTypedQueries
SPECIFICATION Spec
INVARIANT Agreement
PROPERTY AkeRefinement
\* The library is reactive: with no message in flight and no Send left it stops.
CHECK_DEADLOCK FALSE
