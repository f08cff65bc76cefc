----------------------------- MODULE MCFileTable -----------------------------
EXTENDS FileTable, TLC
CONSTANTS t1, t2, f1
TaskSymmetry == Permutations(Tasks)
=============================================================================
