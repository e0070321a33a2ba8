\* Both parties may start the AKE, twice each, over a network that loses,
\* duplicates and reorders messages and on which an attacker forges messages.
CONSTANTS
    A = A
    B = B
    Parties <- MCParties
    AllowedVersions <- MCAllowBoth
    RequireEncryption <- MCBothRequire
    InitVersion <- MCVersion3
    Tags <- MCOneTag
    MaxDraws = 4
    MaxSends = 2
    Lossy = TRUE
    Duplicating = TRUE
    RandFails = FALSE
    Ordered = FALSE
    MaxMsgs = 6
    MaxFaults = 2
    Injecting = {"DHCommit", "DHKey", "Header"}
    UserQueries = {}
SPECIFICATION Spec
INVARIANT Agreement
SYMMETRY MCPartySymmetry
CHECK_DEADLOCK FALSE
