SPECIFICATION RecoverySpec
CONSTANTS
    Trxs = {t1, t2}
    Rids = {r1}
    max_trx_id = 2147483647
    IdBound = 4
    OpsBound = 2
    LogBound = 6
    CrashBound = 2
SYMMETRY Symmetry
INVARIANTS
    RecoveryExact
    CommittedDurable
