--------------------------- MODULE ResearchCorpus ---------------------------
(***************************************************************************)
(* The public research corpus (research_storage.py, research_corpus.py,    *)
(* claim_review.py, corpus_spec_observer.py and the scripts that call      *)
(* them): sources discovered from three providers, documents, claims and   *)
(* their reviews, repository receipts, model-written cards with the packet *)
(* made of them, and the gate between the corpus and a specification.      *)
(* Operators and models run scripts at any time; a transaction is one step *)
(* where a row lock or a re-checked predicate makes it one.                *)
(***************************************************************************)
EXTENDS Naturals, FiniteSets, FiniteSetsExt

CONSTANTS
  Works,       \* publications, known to every provider
  LayersOf,    \* architecture layers a work's title is classified into
  Documents,   \* PDFs: the source they belong to and their page count
  Claims,      \* statements on a page of a document
  Cards,       \* page 0: the document's card, else the diagram of a page
  Contents,    \* what a model can write on a card
  NoContent,   \* no card has been written
  Policy       \* the thresholds of CoveragePolicy

Providers == {"arxiv", "openalex", "crossref"}

(* canonical_source_key: OpenAlex reports a DOI as URL, Crossref as bare   *)
(* identifier and arXiv none, so that the URL is hashed.                   *)
Forms == {"url", "doi_url", "doi"}
Keys == Works \X Forms
SourceKey(w, p) ==
  <<w, CASE p = "arxiv" -> "url" [] p = "openalex" -> "doi_url" [] p = "crossref" -> "doi">>

Layers == {"global_architecture", "subsystem", "component", "feature"}

ASSUME CorpusAssumption ==
  /\ LayersOf \in [Works -> SUBSET Layers]
  /\ \A d \in Documents : d.source \in Keys /\ d.pages \in Nat
  /\ \A c \in Claims : c.document \in Documents /\ c.page \in Nat
  /\ \A k \in Cards : k.document \in Documents /\ k.page \in Nat

VARIABLES
  verification,     \* sources.verification_status, "absent" without a row
  provenance,       \* providers of a source's observations
  reproducibility,  \* assessments.reproducibility in per cent
  documents,        \* document receipts
  claim,            \* claims.reviewer_status
  assessor,         \* claim_assessments.assessor
  linking,          \* claims a repository receipt is about to refer to
  receipts,         \* claims with a public_artifact_receipt
  card,             \* a card's reviewer_status and content
  draft,            \* document cards read for the packet in the making
  packet,           \* reviewed-research-cards.json
  script,           \* the running research script and the coverage it found
  synthesis,        \* synthesis_runs
  humanReviewed,    \* history: claims a human has submitted
  seen              \* history: what reviewers have read of a card

sourceVars == <<verification, provenance, reproducibility>>
claimVars == <<documents, claim, assessor, linking, receipts, humanReviewed>>
cardVars == <<card, draft, packet, seen>>
gateVars == <<script, synthesis>>
corpusVars == <<sourceVars, claimVars, cardVars, gateVars>>

Statuses == {"collecting_evidence", "ready_for_synthesis"}
Decisions == {"continue_collecting_evidence", "hold_for_article_evaluator",
              "review_only_synthesis_candidate", "not_observed"}
NoScript == [of |-> "none", coverage |-> "unknown"]

CorpusTypeOK ==
  /\ verification \in [Keys -> {"absent", "metadata_observed", "content_verified"}]
  /\ provenance \in [Keys -> SUBSET Providers]
  /\ reproducibility \in [Keys -> 0 .. 100]
  /\ documents \subseteq Documents
  /\ claim \in [Claims -> {"absent", "needs_review", "reviewed"}]
  /\ assessor \in [Claims -> {"none", "human", "approved_model"}]
  /\ linking \subseteq Claims /\ receipts \subseteq Claims /\ humanReviewed \subseteq Claims
  /\ card \in [Cards -> [status : {"absent", "needs_review", "reviewed", "rejected"},
                         content : Contents \cup {NoContent}]]
  /\ draft \subseteq Cards \X Contents /\ packet \subseteq Cards \X Contents
  /\ script \in [of : {"none", "research", "import"}, coverage : {"unknown"} \cup Statuses]
  /\ synthesis \subseteq Statuses \X Decisions
  /\ seen \in [Cards -> SUBSET Contents]

CorpusInit ==
  /\ verification = [s \in Keys |-> "absent"]
  /\ provenance = [s \in Keys |-> {}]
  /\ reproducibility = [s \in Keys |-> 0]
  /\ documents = {} /\ linking = {} /\ receipts = {} /\ humanReviewed = {}
  /\ claim = [c \in Claims |-> "absent"]
  /\ assessor = [c \in Claims |-> "none"]
  /\ card = [k \in Cards |-> [status |-> "absent", content |-> NoContent]]
  /\ draft = {} /\ packet = {}
  /\ script = NoScript /\ synthesis = {}
  /\ seen = [k \in Cards |-> {}]

SourceOf(c) == c.document.source

-----------------------------------------------------------------------------
(* Deliberate mistakes: definitions with one error a programmer could      *)
(* make.  No specification uses them; each shows which property catches it.*)

\* a source that is seen again starts again
UpsertedAfresh(items) ==
  [s \in Keys |-> IF s \in {SourceKey(i[1], i[2]) : i \in items}
                  THEN "metadata_observed" ELSE verification[s]]

\* the claims of a model verify their source as well
VerifiedByAnyone(c, who) ==
  [verification EXCEPT ![c.document.source] = "content_verified"]

\* a receipt may refer to any claim
LinkAnyClaim(c) ==
  /\ claim[c] # "absent"
  /\ linking' = linking \cup {c}
  /\ UNCHANGED <<sourceVars, documents, claim, assessor, receipts, humanReviewed, cardVars, gateVars>>

\* every card of a document goes into a packet
AllCards(K) == {<<k, card[k].content>> : k \in {x \in K : card[x].status # "absent"}}

-----------------------------------------------------------------------------
(* Discovery and the gate.                                                 *)

(* evaluate_coverage of all stored sources.                                *)
Stored == {s \in Keys : verification[s] # "absent"}
InLayer(layer) == {s \in Stored : layer \in LayersOf[s[1]]}
Buildable == InLayer("component") \cup InLayer("feature")

Covered ==
  /\ Cardinality(Stored) >= Policy.sources
  /\ Cardinality(UNION {provenance[s] : s \in Stored}) >= Policy.providers
  /\ \A layer \in Layers : Cardinality(InLayer(layer)) >= Policy.perLayer
  /\ Cardinality({s \in Stored : verification[s] = "content_verified"}) >= Policy.verified
  /\ Buildable # {}
  /\ MapThenSumSet(LAMBDA s : reproducibility[s], Buildable)
       >= Policy.reproducibility * Cardinality(Buildable)

CoverageStatus == IF Covered THEN "ready_for_synthesis" ELSE "collecting_evidence"

(* observe_corpus_to_spec                                                  *)
Decision(status, articleScorerHealthy) ==
  IF status # "ready_for_synthesis" THEN "continue_collecting_evidence"
  ELSE IF ~ articleScorerHealthy THEN "hold_for_article_evaluator"
  ELSE "review_only_synthesis_candidate"

Touched(items) == {SourceKey(i[1], i[2]) : i \in items}

ObservedIn(items, s) ==
  {p \in Providers : \E w \in Works : <<w, p>> \in items /\ SourceKey(w, p) = s}

(* persist_run: upserts that keep the verification status of a known       *)
(* source and overwrite its assessment with classify_item's, which never   *)
(* finds anything reproducible.                                            *)
Upserted(items) ==
  [s \in Keys |-> IF s \in Touched(items) /\ verification[s] = "absent"
                  THEN "metadata_observed" ELSE verification[s]]

PersistRun(by, items) ==
  /\ script = NoScript /\ script' = [NoScript EXCEPT !.of = by]
  /\ verification' = Upserted(items)
  /\ provenance' = [s \in Keys |-> provenance[s] \cup ObservedIn(items, s)]
  /\ reproducibility' = [s \in Keys |-> IF s \in Touched(items) THEN 0 ELSE reproducibility[s]]
  /\ UNCHANGED <<claimVars, cardVars, synthesis>>

(* run_it_research: providers that fail or find nothing are skipped, and   *)
(* less than two records or two providers are refused.                     *)
Discover ==
  \E found \in SUBSET (Works \X Providers) :
    /\ Cardinality(found) >= 2
    /\ Cardinality({i[2] : i \in found}) >= 2
    /\ PersistRun("research", found)

(* import_arxiv_record.py and import_openalex_doi_record.py                *)
Import == \E w \in Works, p \in {"arxiv", "openalex"} : PersistRun("import", {<<w, p>>})

Evaluate ==
  /\ script.of # "none" /\ script.coverage = "unknown"
  /\ script' = [script EXCEPT !.coverage = CoverageStatus]
  /\ UNCHANGED <<sourceVars, claimVars, cardVars, synthesis>>

(* record_synthesis_status; the receipt of the article scorer is that of   *)
(* the moment, the coverage that of the evaluation.  The import scripts do *)
(* not observe.                                                            *)
RecordSynthesis ==
  /\ script.coverage \in Statuses /\ script' = NoScript
  /\ \E healthy \in BOOLEAN :
       LET decision == IF script.of = "research" THEN Decision(script.coverage, healthy)
                       ELSE "not_observed"
       IN synthesis' = synthesis \cup {<<script.coverage, decision>>}
  /\ UNCHANGED <<sourceVars, claimVars, cardVars>>

ScriptDies ==
  /\ script # NoScript /\ script' = NoScript
  /\ UNCHANGED <<sourceVars, claimVars, cardVars, synthesis>>

-----------------------------------------------------------------------------
(* Documents, claims and repository receipts.                              *)

(* persist_fulltext_receipt; the row of a PDF never changes afterwards.    *)
PersistDocument(d) ==
  /\ verification[d.source] # "absent"
  /\ documents' = documents \cup {d}
  /\ UNCHANGED <<sourceVars, claim, assessor, linking, receipts, humanReviewed, cardVars, gateVars>>

VerifiedBy(c, who) ==
  [verification EXCEPT ![SourceOf(c)] = IF who = "human" THEN "content_verified" ELSE @]

(* No claim touches the assessment the coverage gate reads.                *)
ReproducibilityAfter(c, who) == reproducibility

(* persist_reviewed_claim: the upsert locks the claim's row and sets its   *)
(* status from the new assessor; the assessment keeps its first assessor.  *)
PersistClaim(c, who) ==
  /\ c.document \in documents /\ c.page <= c.document.pages
  /\ claim' = [claim EXCEPT ![c] = IF who = "human" THEN "reviewed" ELSE "needs_review"]
  /\ assessor' = [assessor EXCEPT ![c] = IF @ = "none" THEN who ELSE @]
  /\ verification' = VerifiedBy(c, who)
  /\ reproducibility' = ReproducibilityAfter(c, who)
  /\ humanReviewed' = IF who = "human" THEN humanReviewed \cup {c} ELSE humanReviewed
  /\ UNCHANGED <<provenance, documents, linking, receipts, cardVars, gateVars>>

(* persist_public_artifact_receipt: the claim's status is read, not        *)
(* locked, before the insert.                                              *)
LinkClaim(c) ==
  /\ claim[c] = "reviewed"
  /\ linking' = linking \cup {c}
  /\ UNCHANGED <<sourceVars, documents, claim, assessor, receipts, humanReviewed, cardVars, gateVars>>

InsertReceipt(c) ==
  /\ c \in linking
  /\ linking' = linking \ {c}
  /\ receipts' = receipts \cup {c} \/ receipts' = receipts
  /\ UNCHANGED <<sourceVars, documents, claim, assessor, humanReviewed, cardVars, gateVars>>

-----------------------------------------------------------------------------
(* Cards and the packet.                                                   *)

Decided == {"reviewed", "rejected"}

OpenToModel(k) == card[k].status \notin Decided

(* persist_document_card and persist_diagram_card: an upsert that leaves   *)
(* decided cards alone.  The one caller of the former fails at its imports *)
(* (see CardScripts); what is modelled here is the storage they share.     *)
PersistCard(k, content) ==
  /\ k.document \in documents /\ k.page <= k.document.pages
  /\ OpenToModel(k)
  /\ card' = [card EXCEPT ![k] = [status |-> "needs_review", content |-> content]]
  /\ UNCHANGED <<sourceVars, claimVars, draft, packet, seen, gateVars>>

(* A reviewer reads the card a script has written.                         *)
ReadCard(k) ==
  /\ card[k].status = "needs_review"
  /\ seen' = [seen EXCEPT ![k] = @ \cup {card[k].content}]
  /\ UNCHANGED <<sourceVars, claimVars, card, draft, packet, gateVars>>

(* review_document_card and review_diagram_card name the card, not its     *)
(* content.                                                                *)
ReviewCard(k, decision) ==
  /\ seen[k] # {} /\ card[k].status = "needs_review"
  /\ card' = [card EXCEPT ![k].status = decision]
  /\ UNCHANGED <<sourceVars, claimVars, draft, packet, seen, gateVars>>

(* render_reviewed_card_packet reads the cards of documents, refuses to go *)
(* on without any, then reads those of diagrams; the file is written last, *)
(* unless the packet exceeds 120 kB.  A reviewed card never changes, so    *)
(* that the second read is not told apart from the writing, and the cards  *)
(* are taken to be no more than the 12 either statement returns.           *)
ReviewedCards(K) == {<<k, card[k].content>> : k \in {x \in K : card[x].status = "reviewed"}}

DocumentCards == {k \in Cards : k.page = 0}

ReadDocumentCards ==
  /\ draft' = ReviewedCards(DocumentCards)
  /\ draft' # {}
  /\ UNCHANGED <<sourceVars, claimVars, card, packet, seen, gateVars>>

WritePacket ==
  /\ draft # {} /\ draft' = {}
  /\ packet' \in {packet, draft \cup ReviewedCards(Cards \ DocumentCards)}
  /\ UNCHANGED <<sourceVars, claimVars, card, seen, gateVars>>

CorpusNext ==
  \/ Discover \/ Import \/ Evaluate \/ RecordSynthesis \/ ScriptDies
  \/ \E d \in Documents : PersistDocument(d)
  \/ \E c \in Claims :
       (\E who \in {"human", "approved_model"} : PersistClaim(c, who)) \/ LinkClaim(c) \/ InsertReceipt(c)
  \/ \E k \in Cards :
       \/ \E content \in Contents : PersistCard(k, content)
       \/ ReadCard(k)
       \/ \E decision \in Decided : ReviewCard(k, decision)
  \/ ReadDocumentCards \/ WritePacket

CorpusSpec == CorpusInit /\ [][CorpusNext]_corpusVars

-----------------------------------------------------------------------------
(* A source counts as content-verified only if a human has submitted a     *)
(* claim about one of its documents, whatever models submit and however    *)
(* often the source is discovered again (persist_reviewed_claim).          *)
VerifiedByHuman ==
  \A s \in Keys :
    verification[s] = "content_verified" => \E c \in humanReviewed : SourceOf(c) = s

(* "A later, more strongly verified assessment may replace a metadata-only *)
(* observation" (evaluate_coverage), never the reverse: discovering a      *)
(* source again does not take its verification away (_upsert_assessment).  *)
VerificationIsKept ==
  [][\A s \in Keys : verification[s] = "content_verified" => verification'[s] = verification[s]
    ]_corpusVars

(* "Link bounded repository metadata only to a human-reviewed claim"       *)
(* (persist_public_artifact_receipt): every receipt refers to a claim some *)
(* human has reviewed, even if a model resubmits it in between.            *)
ReceiptsFollowReview == receipts \subseteq humanReviewed

(* "A reviewed card cannot be overwritten by a model" (persist_document_   *)
(* card), nor decided on twice.                                            *)
CardVerdictIsFinal ==
  [][\A k \in Cards : card[k].status \in Decided => card'[k] = card[k]]_corpusVars

(* A packet that has been written contains reviewed cards only and shows   *)
(* each as it still stands in the database: no later run of a model or of  *)
(* a reviewer invalidates it (render_reviewed_card_packet).                *)
PacketIsReviewed ==
  \A entry \in packet :
    card[entry[1]] = [status |-> "reviewed", content |-> entry[2]]

(* Nothing the repository can do today opens the gate to a specification:  *)
(* reviews and receipts raise the verification of a source, and none of    *)
(* them the reproducibility the coverage gate asks for.                    *)
GateNeverOpens ==
  \A s \in synthesis :
    /\ s[1] = "collecting_evidence"
    /\ s[2] \in {"continue_collecting_evidence", "not_observed"}

-----------------------------------------------------------------------------
(* Statements the code does not keep.                                      *)

(* Cards reach the packet only when a human has marked them reviewed       *)
(* (document_cards.py): the text a human approved is one he has read.      *)
ApprovedContentWasRead ==
  \A k \in Cards : card[k].status = "reviewed" => card[k].content \in seen[k]

(* "Model-created claims remain needs_review" (record_reviewed_claim.py):  *)
(* a reviewed claim names a human as its assessor.                         *)
ModelClaimsNeedReview ==
  \A c \in Claims : assessor[c] = "approved_model" => claim[c] = "needs_review"

(* A receipt's claim still counts as reviewed.                             *)
ReceiptClaimsStayReviewed == \A c \in receipts : claim[c] = "reviewed"

(* "Deduplicate observations" (canonical_source_key): the sources that     *)
(* coverage counts as unique are different publications.                   *)
WorksCountedOnce == \A s, u \in Stored : s # u => s[1] # u[1]
=============================================================================
