\* Any control messages in any order over three transfers.
CONSTANTS
    t1 = t1
    t2 = t2
    t3 = t3
    NoTransfer = NoTransfer
    TransferIds = {t1, t2, t3}
    Amounts = {1, 2}
    MAX_REMOTE_PRINCIPAL = 2
    WATERMARK_LAG = 1
    GuardianSigns = {TRUE, FALSE}
    MaxEpoch = 1
    Versions = {1}
    InitialVersion = 1
    MaxSequence = 4
    MaxReports = 0
    MaxArrivals = 3
SYMMETRY MCSymmetry
SPECIFICATION LegSpec
INVARIANTS
    LegTypeOK
    CustodyIdentity
    TokenConservation
    OneOpenTransfer
    RecallConservation
    PrincipalCeiling
    LedgerBalanced
    SettledOnce
    ReplayCovered
    BooksMatchRecords
