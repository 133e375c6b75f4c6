SPECIFICATION RecoverySpec
CONSTANTS
    Trxs = {t1}
    Rids = {r1}
    max_trx_id = 2147483647
    IdBound = 4
    OpsBound = 2
    LogBound = 6
    CrashBound = 2
PROPERTY LosersRolledBack
