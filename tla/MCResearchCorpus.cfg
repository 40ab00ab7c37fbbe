SPECIFICATION CorpusSpec
CONSTANTS
  paper = paper
  Works = {paper}
  LayersOf <- MCLayers
  Documents <- MCDocuments
  Claims <- MCClaims
  Cards <- MCCards
  Contents = {x, y}
  NoContent = NoContent
  Policy <- MCPolicy
SYMMETRY ContentSymmetry
INVARIANTS
  VerifiedByHuman
  ReceiptsFollowReview
  PacketIsReviewed
PROPERTIES
  VerificationIsKept
