CONSTANTS
    plain = plain
    secret = secret
    secretMirrored = secretMirrored
    mirrorOnly = mirrorOnly
    j1 = j1
    j2 = j2
    Nids <- MCNids
    EventTypes <- MCEventTypes
    CryptoTypes <- MCCryptoTypes
    MirrorTypes <- MCMirrorTypes
    Payloads <- MCPayloads
    BatchSize = 3
    MaxLog = 3
    MaxRestarts = 1
SPECIFICATION Spec
SYMMETRY Symmetry
CHECK_DEADLOCK FALSE
INVARIANT BulkFailureFallsBack
