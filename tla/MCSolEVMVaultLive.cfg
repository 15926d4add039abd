\* Two controllers with one unit each: what a freeze leaves behind.
SPECIFICATION VaultFairSpec
CONSTANTS
    alice = alice
    bob = bob
    vault = vault
    Controllers <- MCControllers
    Vault = vault
    TransferIds = {}
    NoTransfer = NoTransfer
    Amounts = {1}
    MaxEpoch = 1
    Versions = {1}
    InitialVersion = 1
    MaxSequence = 1
    VIRTUAL_SHARES = 1
    MAX_DEPOSIT_REQUESTS_PER_EPOCH = 2
    MAX_REDEEM_REQUESTS_PER_EPOCH = 2
    MaxRequest = 1
    MaxReceived = 0
PROPERTY
    FrozenFundsExit
