\* One depositor, two cycles, a leg that may report anything.
SPECIFICATION AccountingSpec
SYMMETRY MCSymmetry
CONSTANTS
    t1 = t1
    t2 = t2
    alice = alice
    vault = vault
    TransferIds <- MCTransferIds
    NoTransfer = NoTransfer
    Amounts = {2}
    MaxEpoch = 1
    Versions = {1}
    InitialVersion = 1
    MaxSequence = 3
    Controllers = {alice}
    Vault = vault
    VIRTUAL_SHARES = 1
    MAX_DEPOSIT_REQUESTS_PER_EPOCH = 1
    MAX_REDEEM_REQUESTS_PER_EPOCH = 1
    MaxRequest = 2
    MaxReceived = 2
    MaxInbound = 2
    MaxReported = 2
    MaxLoss = 1
INVARIANTS
    AccountingTypeOK
    NoDeficit
    PrincipalConserved
    ValueWithinPrincipal
    CycleMatchesVault
    GenesisEpochUnexposed
PROPERTIES
    FixedPriceKeepsNav
    RoundingFavoursVault
