CONSTANTS
    plain = plain
    secret = secret
    secretMirrored = secretMirrored
    mirrorOnly = mirrorOnly
    j1 = j1
    j2 = j2
    Nids <- MCNids
    EventTypes <- MCEventTypes
    CryptoTypes <- MCCryptoTypes
    MirrorTypes <- MCMirrorTypes
    Payloads <- MCPayloads
    BatchSize = 3
    MaxLog = 3
    MaxRestarts = 1
SPECIFICATION Spec
SYMMETRY Symmetry
INVARIANT TypeOK
INVARIANT SensitiveEncryptedAtRest
INVARIANT MirrorFollowsPrimary
INVARIANT EveryRowAccountedFor
CHECK_DEADLOCK FALSE
