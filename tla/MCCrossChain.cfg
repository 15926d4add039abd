\* Two cycles over one epoch, no user requests.
SPECIFICATION CrossSpec
SYMMETRY MCSymmetryTwo
CONSTANTS
    t1 = t1
    t2 = t2
    vault = vault
    TransferIds <- MCTwoTransfers
    NoTransfer = NoTransfer
    Amounts = {1, 2}
    MaxEpoch = 1
    Versions = {1}
    InitialVersion = 1
    MaxSequence = 3
    Controllers = {}
    Vault = vault
    VIRTUAL_SHARES = 1
    MAX_DEPOSIT_REQUESTS_PER_EPOCH = 1
    MAX_REDEEM_REQUESTS_PER_EPOCH = 1
    MaxRequest = 0
    MaxReceived = 2
    MaxInbound = 4
    MaxReported = 0
    MaxLoss = 0
    MAX_REMOTE_PRINCIPAL = 2
    WATERMARK_LAG = 9
    GuardianSigns = {TRUE}
    MaxReports = 1
    MaxArrivals = 2
    GenesisAssets = 2
INVARIANTS
    ChainsAgree
    ReturnsAttributed
    BackedByAssets
    ControlLaneMoves
    OutboundLaneMoves
