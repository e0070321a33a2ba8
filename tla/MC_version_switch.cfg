\* A requires encryption; the user of B may type ?OTR? and ?OTRv2?: a typed
\* query re-runs the AKE of an encrypted conversation at another version,
\* and a data message of its peer then fails the version check.
CONSTANTS
    A = A
    B = B
    Parties <- MCParties
    AllowedVersions <- MCAllowBoth
    RequireEncryption <- MCOnlyARequires
    InitVersion <- MCVersion3
    Tags <- MCTags
    MaxDraws = 5
    MaxSends = 2
    Lossy = FALSE
    Duplicating = FALSE
    RandFails = FALSE
    Ordered = TRUE
    MaxMsgs = 9
    MaxFaults = 0
    Injecting = {}
    UserQueries <- MCTypedQueries
SPECIFICATION Spec

INVARIANT DataVersionAccepted
\* The library is reactive: with no message in flight and no Send left it stops.
CHECK_DEADLOCK FALSE
