---------------------------- MODULE MCRecordFile ----------------------------
EXTENDS RecordFile, TLC

Symmetry == Permutations(Threads \ Scanning)
=============================================================================
