\* One controller over three epochs: a redemption leaves dust, so that the next
\* deposit rounds too.
SPECIFICATION VaultSpec
CONSTANTS
    alice = alice
    bob = bob
    vault = vault
    Controllers = {alice}
    Vault = vault
    TransferIds = {}
    NoTransfer = NoTransfer
    Amounts = {1, 2}
    MaxEpoch = 2
    Versions = {1}
    InitialVersion = 1
    MaxSequence = 1
    VIRTUAL_SHARES = 2
    MAX_DEPOSIT_REQUESTS_PER_EPOCH = 2
    MAX_REDEEM_REQUESTS_PER_EPOCH = 2
    MaxRequest = 2
    MaxReceived = 0
PROPERTY
    RoundingFavoursVault
