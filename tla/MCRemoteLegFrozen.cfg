\* A guardian that never signs, configuration updates and reports.
CONSTANTS
    t1 = t1
    t2 = t2
    t3 = t3
    NoTransfer = NoTransfer
    TransferIds = {t1, t2}
    Amounts = {1}
    MAX_REMOTE_PRINCIPAL = 2
    WATERMARK_LAG = 9
    GuardianSigns = {FALSE}
    MaxEpoch = 1
    Versions = {1, 2}
    InitialVersion = 1
    MaxSequence = 3
    MaxReports = 1
    MaxArrivals = 1
SPECIFICATION LegSpec
PROPERTY
    FrozenWithoutGuardian
