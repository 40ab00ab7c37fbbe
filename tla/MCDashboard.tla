---------------------------- MODULE MCDashboard ----------------------------
EXTENDS Dashboard, TLC

RequestSymmetry ==
  Permutations(Primary \ Direct) \cup Permutations(Freemium \ Direct)
=============================================================================
