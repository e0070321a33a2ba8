\* As MC_requery_keys: a party re-runs the AKE as initiator while encrypted.
CONSTANTS
    A = A
    B = B
    Parties <- MCParties
    AllowedVersions <- MCAllowBoth
    RequireEncryption <- MCBothRequire
    InitVersion <- MCVersion3
    Tags <- MCTags
    MaxDraws = 5
    MaxSends = 1
    Lossy = FALSE
    Duplicating = FALSE
    RandFails = FALSE
    Ordered = TRUE
    MaxMsgs = 9
    MaxFaults = 0
    Injecting = {}
    UserQueries = {}
SPECIFICATION Spec
INVARIANT EncryptedKeysAuthenticated
CHECK_DEADLOCK FALSE
