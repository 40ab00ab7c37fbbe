--------------------------- MODULE MCControlPlane ---------------------------
EXTENDS ControlPlane, TLC

WorkerSymmetry == Permutations(Workers)
=============================================================================
