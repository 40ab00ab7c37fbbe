------------------------ MODULE ResearchCorpusProofs ------------------------
(***************************************************************************)
(* Proofs about the research corpus, for any number of publications,       *)
(* documents, claims and cards and every coverage policy.                  *)
(***************************************************************************)
EXTENDS ResearchCorpus, TLAPS

(* Between a review and what is built on it the code keeps no lock: what   *)
(* holds in between must be part of the invariant, the claim a receipt is  *)
(* about to refer to and the cards read for a packet in the making.        *)
ReviewedClaims == {c \in Claims : claim[c] = "reviewed"}

CorpusInv ==
  /\ CorpusTypeOK
  /\ VerifiedByHuman
  /\ \A k \in Cards : card[k].status # "absent" => card[k].content \in Contents
  /\ ReviewedClaims \cup linking \cup receipts \subseteq humanReviewed
  /\ \A entry \in draft \cup packet :
       card[entry[1]] = [status |-> "reviewed", content |-> entry[2]]

(* The key of a record is one of its publication's (canonical_source_key). *)
LEMMA KeyIsKey == \A w \in Works, p \in Providers : SourceKey(w, p) \in Keys
  BY DEF SourceKey, Keys, Forms, Providers

(* evaluate_coverage and observe_corpus_to_spec return what the tables     *)
(* know.                                                                   *)
LEMMA StatusIsStatus == CoverageStatus \in Statuses
  BY DEF CoverageStatus, Statuses

LEMMA DecisionIsDecision == \A s, h : Decision(s, h) \in Decisions
  BY DEF Decision, Decisions

(* What a query of reviewed cards returns.                                 *)
LEMMA ReviewedCardsAreReviewed ==
  ASSUME CorpusInv, NEW K \in SUBSET Cards
  PROVE  /\ ReviewedCards(K) \subseteq Cards \X Contents
         /\ \A entry \in ReviewedCards(K) :
              card[entry[1]] = [status |-> "reviewed", content |-> entry[2]]
<1> SUFFICES ASSUME NEW entry \in ReviewedCards(K)
             PROVE  /\ entry \in Cards \X Contents
                    /\ card[entry[1]] = [status |-> "reviewed", content |-> entry[2]]
  OBVIOUS
<1>1. PICK k \in K : card[k].status = "reviewed" /\ entry = <<k, card[k].content>>
  BY DEF ReviewedCards
<1>2. card[k] \in [status : {"absent", "needs_review", "reviewed", "rejected"},
                   content : Contents \cup {NoContent}]
  BY DEF CorpusInv, CorpusTypeOK
<1>3. card[k].content \in Contents
  BY <1>1 DEF CorpusInv
<1> QED
  BY <1>1, <1>2, <1>3

LEMMA CorpusInvInit == CorpusInit => CorpusInv
  BY DEF CorpusInit, CorpusInv, CorpusTypeOK, VerifiedByHuman, ReviewedClaims, NoScript

(* Scripts of discovery and of the gate leave claims and cards alone.      *)
LEMMA SourcesKeep ==
  ASSUME CorpusInv, claimVars' = claimVars, cardVars' = cardVars,
         verification' \in [Keys -> {"absent", "metadata_observed", "content_verified"}],
         provenance' \in [Keys -> SUBSET Providers],
         reproducibility' \in [Keys -> 0 .. 100],
         script' \in [of : {"none", "research", "import"}, coverage : {"unknown"} \cup Statuses],
         synthesis' \subseteq Statuses \X Decisions,
         \A s \in Keys : verification'[s] = "content_verified" => verification[s] = "content_verified"
  PROVE  CorpusInv'
  BY DEF CorpusInv, CorpusTypeOK, VerifiedByHuman, ReviewedClaims, claimVars, cardVars, SourceOf

LEMMA PersistRunKeeps ==
  ASSUME CorpusInv, NEW by \in {"research", "import"}, NEW items, PersistRun(by, items)
  PROVE  CorpusInv'
<1>1. verification' \in [Keys -> {"absent", "metadata_observed", "content_verified"}]
  BY DEF PersistRun, Upserted, CorpusInv, CorpusTypeOK
<1>2. \A s \in Keys : verification'[s] = "content_verified" => verification[s] = "content_verified"
  BY DEF PersistRun, Upserted
<1>3. \A s \in Keys : ObservedIn(items, s) \subseteq Providers
  BY DEF ObservedIn
<1>4. provenance' \in [Keys -> SUBSET Providers]
  BY <1>3 DEF PersistRun, CorpusInv, CorpusTypeOK
<1>5. reproducibility' \in [Keys -> 0 .. 100]
  BY DEF PersistRun, CorpusInv, CorpusTypeOK
<1>6. script' \in [of : {"none", "research", "import"}, coverage : {"unknown"} \cup Statuses]
  BY DEF PersistRun, NoScript
<1> QED
  BY <1>1, <1>2, <1>4, <1>5, <1>6, SourcesKeep DEF PersistRun, CorpusInv, CorpusTypeOK

LEMMA GateKeeps ==
  ASSUME CorpusInv, Evaluate \/ RecordSynthesis \/ ScriptDies
  PROVE  CorpusInv'
<1>1. UNCHANGED <<sourceVars, claimVars, cardVars>>
  BY DEF Evaluate, RecordSynthesis, ScriptDies
<1>2. script' \in [of : {"none", "research", "import"}, coverage : {"unknown"} \cup Statuses]
  BY StatusIsStatus DEF Evaluate, RecordSynthesis, ScriptDies, NoScript, CorpusInv, CorpusTypeOK
<1>3. synthesis' \subseteq Statuses \X Decisions
  <2>1. CASE RecordSynthesis
    <3>1. "not_observed" \in Decisions
      BY DEF Decisions
    <3> QED
      BY <2>1, <3>1, DecisionIsDecision DEF RecordSynthesis, CorpusInv, CorpusTypeOK
  <2> QED
    BY <2>1 DEF Evaluate, ScriptDies, CorpusInv, CorpusTypeOK
<1> QED
  BY <1>1, <1>2, <1>3, SourcesKeep DEF sourceVars, CorpusInv, CorpusTypeOK

LEMMA PersistDocumentKeeps ==
  ASSUME CorpusInv, NEW d \in Documents, PersistDocument(d)
  PROVE  CorpusInv'
  BY DEF PersistDocument, CorpusInv, CorpusTypeOK, VerifiedByHuman, ReviewedClaims, SourceOf,
         sourceVars, cardVars, gateVars

LEMMA PersistClaimKeeps ==
  ASSUME CorpusInv, NEW c \in Claims, NEW who \in {"human", "approved_model"}, PersistClaim(c, who)
  PROVE  CorpusInv'
<1>1. SourceOf(c) \in Keys
  BY CorpusAssumption DEF SourceOf
<1>2. CorpusTypeOK'
  BY <1>1 DEF PersistClaim, VerifiedBy, ReproducibilityAfter, CorpusInv, CorpusTypeOK, cardVars, gateVars
<1>3. VerifiedByHuman'
  <2> SUFFICES ASSUME NEW s \in Keys, verification'[s] = "content_verified"
               PROVE  \E d \in humanReviewed' : SourceOf(d) = s
    BY DEF VerifiedByHuman, SourceOf
  <2>1. CASE verification[s] = "content_verified"
    BY <2>1 DEF PersistClaim, CorpusInv, VerifiedByHuman
  <2>2. CASE verification[s] # "content_verified"
    <3>1. who = "human" /\ s = SourceOf(c)
      BY <1>1, <2>2 DEF PersistClaim, VerifiedBy, CorpusInv, CorpusTypeOK
    <3> QED
      BY <3>1 DEF PersistClaim
  <2> QED
    BY <2>1, <2>2
<1>4. (ReviewedClaims \cup linking \cup receipts \subseteq humanReviewed)'
  BY DEF PersistClaim, CorpusInv, CorpusTypeOK, ReviewedClaims
<1> QED
  BY <1>2, <1>3, <1>4 DEF PersistClaim, CorpusInv, cardVars

LEMMA ReceiptsKeep ==
  ASSUME CorpusInv, NEW c \in Claims, LinkClaim(c) \/ InsertReceipt(c)
  PROVE  CorpusInv'
<1>1. UNCHANGED <<sourceVars, documents, claim, assessor, humanReviewed, cardVars, gateVars>>
  BY DEF LinkClaim, InsertReceipt
<1>2. /\ linking' \subseteq Claims /\ receipts' \subseteq Claims
      /\ linking' \cup receipts' \subseteq humanReviewed
  BY DEF LinkClaim, InsertReceipt, CorpusInv, CorpusTypeOK, ReviewedClaims
<1> QED
  BY <1>1, <1>2
  DEF CorpusInv, CorpusTypeOK, VerifiedByHuman, ReviewedClaims, SourceOf, sourceVars, cardVars, gateVars

(* No card that has been decided on changes.                               *)
LEMMA CardsKeep ==
  ASSUME CorpusInv, NEW k \in Cards,
         \/ \E content \in Contents : PersistCard(k, content)
         \/ ReadCard(k)
         \/ \E decision \in Decided : ReviewCard(k, decision)
  PROVE  /\ CorpusInv'
         /\ \A x \in Cards : card[x].status \in Decided => card'[x] = card[x]
<1>1. UNCHANGED <<sourceVars, claimVars, draft, packet, gateVars>>
  BY DEF PersistCard, ReadCard, ReviewCard
<1> DEFINE Written == \A x \in Cards : card[x].status # "absent" => card[x].content \in Contents
<1>2. CorpusTypeOK' /\ Written'
  <2>1. ASSUME NEW content \in Contents, PersistCard(k, content) PROVE CorpusTypeOK' /\ Written'
    BY <2>1 DEF PersistCard, CorpusInv, CorpusTypeOK, sourceVars, claimVars, gateVars
  <2>2. CASE ReadCard(k)
    BY <2>2 DEF ReadCard, CorpusInv, CorpusTypeOK, sourceVars, claimVars, gateVars
  <2>3. ASSUME NEW decision \in Decided, ReviewCard(k, decision) PROVE CorpusTypeOK' /\ Written'
    BY <2>3 DEF ReviewCard, Decided, CorpusInv, CorpusTypeOK, sourceVars, claimVars, gateVars
  <2> QED
    BY <2>1, <2>2, <2>3
<1>3. \A x \in Cards : card[x].status \in Decided => card'[x] = card[x]
  BY DEF PersistCard, OpenToModel, ReadCard, ReviewCard, Decided, CorpusInv, CorpusTypeOK
<1>4. \A entry \in draft \cup packet : entry[1] \in Cards /\ card[entry[1]].status \in Decided
  <2> TAKE entry \in draft \cup packet
  <2>1. entry[1] \in Cards
    BY DEF CorpusInv, CorpusTypeOK
  <2>2. card[entry[1]] = [status |-> "reviewed", content |-> entry[2]]
    BY DEF CorpusInv
  <2> QED
    BY <2>1, <2>2 DEF Decided
<1>5. \A entry \in draft' \cup packet' :
        card'[entry[1]] = [status |-> "reviewed", content |-> entry[2]]
  BY <1>1, <1>3, <1>4 DEF CorpusInv
<1>6. VerifiedByHuman' /\ (ReviewedClaims \cup linking \cup receipts \subseteq humanReviewed)'
  BY <1>1 DEF CorpusInv, VerifiedByHuman, ReviewedClaims, SourceOf, sourceVars, claimVars
<1> QED
  BY <1>2, <1>3, <1>5, <1>6 DEF CorpusInv

LEMMA PacketKeeps ==
  ASSUME CorpusInv, ReadDocumentCards \/ WritePacket
  PROVE  CorpusInv'
<1>1. UNCHANGED <<sourceVars, claimVars, card, seen, gateVars>>
  BY DEF ReadDocumentCards, WritePacket
<1>2. /\ draft' \cup packet' \subseteq Cards \X Contents
      /\ \A entry \in draft' \cup packet' :
           card[entry[1]] = [status |-> "reviewed", content |-> entry[2]]
  <2>1. DocumentCards \subseteq Cards /\ Cards \ DocumentCards \subseteq Cards
    BY DEF DocumentCards
  <2>2. draft \cup packet \subseteq Cards \X Contents
    BY DEF CorpusInv, CorpusTypeOK
  <2>3. CASE ReadDocumentCards
    BY <2>1, <2>2, <2>3, ReviewedCardsAreReviewed DEF ReadDocumentCards, CorpusInv
  <2>4. CASE WritePacket
    BY <2>1, <2>2, <2>4, ReviewedCardsAreReviewed DEF WritePacket, CorpusInv
  <2> QED
    BY <2>3, <2>4
<1> QED
  BY <1>1, <1>2
  DEF CorpusInv, CorpusTypeOK, VerifiedByHuman, ReviewedClaims, SourceOf, sourceVars, claimVars, gateVars

LEMMA CorpusInvNext == CorpusInv /\ [CorpusNext]_corpusVars => CorpusInv'
<1> SUFFICES ASSUME CorpusInv, [CorpusNext]_corpusVars PROVE CorpusInv'
  OBVIOUS
<1>1. CASE UNCHANGED corpusVars
  BY <1>1 DEF corpusVars, sourceVars, claimVars, cardVars, gateVars, CorpusInv, CorpusTypeOK,
              VerifiedByHuman, ReviewedClaims, SourceOf
<1>2. CASE Discover \/ Import
  BY <1>2, PersistRunKeeps DEF Discover, Import
<1>3. CASE Evaluate \/ RecordSynthesis \/ ScriptDies
  BY <1>3, GateKeeps
<1>4. CASE \E d \in Documents : PersistDocument(d)
  BY <1>4, PersistDocumentKeeps
<1>5. ASSUME NEW c \in Claims,
             \/ \E who \in {"human", "approved_model"} : PersistClaim(c, who)
             \/ LinkClaim(c) \/ InsertReceipt(c)
      PROVE  CorpusInv'
  BY <1>5, PersistClaimKeeps, ReceiptsKeep
<1>6. ASSUME NEW k \in Cards,
             \/ \E content \in Contents : PersistCard(k, content)
             \/ ReadCard(k)
             \/ \E decision \in Decided : ReviewCard(k, decision)
      PROVE  CorpusInv'
  BY <1>6, CardsKeep
<1>7. CASE ReadDocumentCards \/ WritePacket
  BY <1>7, PacketKeeps
<1> QED
  BY <1>1, <1>2, <1>3, <1>4, <1>5, <1>6, <1>7 DEF CorpusNext

(* The invariant holds in every behaviour of the scripts.                  *)
THEOREM CorpusInvariant == CorpusSpec => []CorpusInv
  BY CorpusInvInit, CorpusInvNext, PTL DEF CorpusSpec

-----------------------------------------------------------------------------
(* What the tables contain is what their columns allow.                    *)
THEOREM CorpusTypeCorrect == CorpusSpec => []CorpusTypeOK
<1>1. CorpusInv => CorpusTypeOK
  BY DEF CorpusInv
<1> QED
  BY <1>1, CorpusInvariant, PTL

(* persist_reviewed_claim: only claims of humans verify a source.          *)
THEOREM VerificationComesFromHumans == CorpusSpec => []VerifiedByHuman
<1>1. CorpusInv => VerifiedByHuman
  BY DEF CorpusInv
<1> QED
  BY <1>1, CorpusInvariant, PTL

(* persist_public_artifact_receipt: every claim a receipt refers to has    *)
(* been reviewed by a human, although the check and the insert are apart.  *)
THEOREM ReceiptsHaveReviews == CorpusSpec => []ReceiptsFollowReview
<1>1. CorpusInv => ReceiptsFollowReview
  BY DEF CorpusInv, ReceiptsFollowReview
<1> QED
  BY <1>1, CorpusInvariant, PTL

(* render_reviewed_card_packet: a packet written stays true.               *)
THEOREM PacketsStayReviewed == CorpusSpec => []PacketIsReviewed
<1>1. CorpusInv => PacketIsReviewed
  BY DEF CorpusInv, PacketIsReviewed
<1> QED
  BY <1>1, CorpusInvariant, PTL

(* _upsert_assessment: no later discovery takes a verification away.       *)
THEOREM VerificationsAreKept == CorpusSpec => VerificationIsKept
<1> DEFINE Kept == \A s \in Keys : verification[s] = "content_verified" => verification'[s] = verification[s]
<1>1. CorpusInv /\ [CorpusNext]_corpusVars => [Kept]_corpusVars
  <2> SUFFICES ASSUME CorpusInv, CorpusNext PROVE Kept
    OBVIOUS
  <2>1. CASE sourceVars' = sourceVars
    BY <2>1 DEF sourceVars
  <2>2. ASSUME NEW by, NEW items, PersistRun(by, items) PROVE Kept
    BY <2>2 DEF PersistRun, Upserted
  <2>3. ASSUME NEW c \in Claims, NEW who, PersistClaim(c, who) PROVE Kept
    BY <2>3 DEF PersistClaim, VerifiedBy, CorpusInv, CorpusTypeOK
  <2> QED
    BY <2>1, <2>2, <2>3
    DEF CorpusNext, Discover, Import, Evaluate, RecordSynthesis, ScriptDies, PersistDocument, LinkClaim,
        InsertReceipt, PersistCard, ReadCard, ReviewCard, ReadDocumentCards, WritePacket
<1> QED
  BY <1>1, CorpusInvariant, PTL DEF CorpusSpec, VerificationIsKept

(* persist_document_card, persist_diagram_card and the two reviews: no     *)
(* model and no second decision changes a card that has been decided on.   *)
THEOREM CardVerdictsAreFinal == CorpusSpec => CardVerdictIsFinal
<1> DEFINE Final == \A k \in Cards : card[k].status \in Decided => card'[k] = card[k]
<1>1. CorpusInv /\ [CorpusNext]_corpusVars => [Final]_corpusVars
  <2> SUFFICES ASSUME CorpusInv, CorpusNext PROVE Final
    OBVIOUS
  <2>1. CASE card' = card
    BY <2>1
  <2>2. ASSUME NEW k \in Cards,
               \/ \E content \in Contents : PersistCard(k, content)
               \/ ReadCard(k)
               \/ \E decision \in Decided : ReviewCard(k, decision)
        PROVE  Final
    BY <2>2, CardsKeep
  <2> QED
    BY <2>1, <2>2
    DEF CorpusNext, Discover, Import, Evaluate, RecordSynthesis, ScriptDies, PersistRun, PersistDocument,
        PersistClaim, LinkClaim, InsertReceipt, ReadDocumentCards, WritePacket, cardVars
<1> QED
  BY <1>1, CorpusInvariant, PTL DEF CorpusSpec, CardVerdictIsFinal
=============================================================================
