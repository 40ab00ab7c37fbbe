--------------------------- MODULE MCReaperWatch ----------------------------
EXTENDS ReaperWatch, TLC

WorkerSymmetry == Permutations(Workers)
=============================================================================
