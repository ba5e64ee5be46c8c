SPECIFICATION Spec
CONSTANTS
    None = None
    Validators <- OneValidator
    Expected = "v1"
    Stranger = "x"
    Scopes <- BothScopes
    SYNC_MAX_BATCH = 1
    HANDSHAKE_CATCHUP_ROUNDS = 1
    HEADS = 1
    MaxHeight = 3
    MaxFaults = 1
CHECK_DEADLOCK FALSE
INVARIANTS VerifiedIsReplay PushIsNoReply
PROPERTY CaughtUp
