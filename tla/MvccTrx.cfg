SPECIFICATION Spec
CONSTANTS
    Trxs = {t1, t2}
    Rids = {r1, r2}
    max_trx_id = 2147483647
    IdBound = 6
    OpsBound = 3
SYMMETRY Symmetry
INVARIANTS
    MarksMatchOperations
    VersionsOrdered
    SnapshotReads
PROPERTIES
    CommittedInsertPermanent
