\* Two controllers, two epochs, one unasked token.
SPECIFICATION VaultSpec
SYMMETRY MCSymmetry
CONSTANTS
    alice = alice
    bob = bob
    vault = vault
    Controllers <- MCControllers
    Vault = vault
    TransferIds = {}
    NoTransfer = NoTransfer
    Amounts = {1, 2}
    MaxEpoch = 1
    Versions = {1}
    InitialVersion = 1
    MaxSequence = 1
    VIRTUAL_SHARES = 2
    MAX_DEPOSIT_REQUESTS_PER_EPOCH = 2
    MAX_REDEEM_REQUESTS_PER_EPOCH = 2
    MaxRequest = 2
    MaxReceived = 1
INVARIANTS
    VaultTypeOK
    NoDeficit
    EscrowMatchesRequests
    ClaimsCovered
    SlotsMatchLists
PROPERTY
    RoundingFavoursVault
