SPECIFICATION StorageSpec
CONSTANTS
  base = base
  cand = cand
  Versions = {base, cand}
  NoVersion = NoVersion
  Definition <- MCDefinition
  Runs <- MCRuns
  MaxDecisions = 2
  Assets = {prompt}
  NoAsset = NoAsset
  Writers = {w1, w2}
SYMMETRY WriterSymmetry
INVARIANTS
  PromotionIsEarned
  StateIsLastDecision
  SerialStateFollowsHistory
  PromotedHasSuccesses
PROPERTIES
  VerdictIsFinal
