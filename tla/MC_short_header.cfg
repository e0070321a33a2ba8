\* A and B speak v3 over a reliable FIFO network into which an attacker
\* may splice one message of two bytes: the protocol version alone.
CONSTANTS
    A = A
    B = B
    Parties <- MCParties
    AllowedVersions <- MCAllowBoth
    RequireEncryption <- MCOnlyARequires
    InitVersion <- MCVersion3
    Tags <- MCTags
    MaxDraws = 5
    MaxSends = 2
    Lossy = FALSE
    Duplicating = FALSE
    RandFails = FALSE
    Ordered = TRUE
    MaxMsgs = 9
    MaxFaults = 1
    Injecting = {"Header"}
    UserQueries = {}
SPECIFICATION Spec
INVARIANT NoPanic
\* The library is reactive: with no message in flight and no Send left it stops.
CHECK_DEADLOCK FALSE
