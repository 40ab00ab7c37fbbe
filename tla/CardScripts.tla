----------------------------- MODULE CardScripts -----------------------------
(***************************************************************************)
(* Cards that GigaChat writes about verified preprints: the diagram cards  *)
(* (run_gigachat_diagram_cards.py, diagram_cards.py), the program for the  *)
(* card of a document (run_gigachat_document_card.py), which dies of its   *)
(* imports, and the two-lane wrapper both run under                        *)
(* (lib/gigachat_failover.sh), beside the intake of the documents they     *)
(* read.                                                                   *)
(* A run has two processes: the wrapper, and for each lane a program whose *)
(* end the wrapper judges by its output.                                   *)
(***************************************************************************)
EXTENDS EvidenceIntake

CONSTANTS
  PageCount,       \* pages of a preprint
  DiagramPages     \* candidate_diagram_pages, or --page

ASSUME CardAssumption ==
  /\ PageCount \in 1 .. 100
  /\ DiagramPages \subseteq 1 .. PageCount /\ Cardinality(DiagramPages) \in 1 .. 12

VARIABLES
  paused,   \* gigachat-rate-limit-pause-until lies ahead
  cards,    \* stored diagram cards: document, page and bytes read
  decided,  \* cards a human has decided on
  job,      \* the card script at each terminal
  runs      \* card scripts started so far

cardVars == <<paused, cards, decided, job, runs>>
vars == <<intakeVars, cardVars>>

NoDocument == [id |-> NoId, bytes |-> 0, route |-> "none"]

NoJob == [at |-> "idle", kind |-> "none", document |-> NoDocument, lane |-> "primary",
          bytes |-> 0, pages |-> {}, page |-> 0, answer |-> "none", uploads |-> {},
          stored |-> {}, calls |-> 0, exit |-> 0]

Running(s) == s.at \notin {"idle", "done"}

Places == {"lane", "fetch", "page", "vision", "delete", "store", "output",
           "limited", "broken", "done", "idle"}
Documents == [id : Ids, bytes : Versions, route : Routes]

Jobs ==
  [at : Places, kind : {"none", "document", "diagrams"}, document : Documents \cup {NoDocument},
   lane : {"primary", "freemium"}, bytes : 0 .. MaxVersion,
   pages : SUBSET (1 .. PageCount), page : 0 .. PageCount,
   answer : {"none", "good", "bad", "limited"}, uploads : SUBSET (1 .. PageCount),
   stored : SUBSET (1 .. PageCount), calls : Nat, exit : {0, 1, 75}]

CardTypeOK ==
  /\ paused \in BOOLEAN
  /\ cards \subseteq [document : Documents, page : 1 .. PageCount, bytes : 0 .. MaxVersion]
  /\ decided \subseteq Documents \X (1 .. PageCount)
  /\ job \in [Terminals -> Jobs]
  /\ runs \in 0 .. MaxScripts

CardInit ==
  /\ paused = FALSE /\ cards = {} /\ decided = {} /\ runs = 0
  /\ job = [c \in Terminals |-> NoJob]

-----------------------------------------------------------------------------
(* Deliberate mistakes.                                                    *)

\* a limited page ends the program and is left to the other lane
LimitedPageRaises(s) ==
  IF s.answer = "limited" THEN [s EXCEPT !.at = "limited"]
  ELSE [s EXCEPT !.at = "page", !.pages = @ \ {s.page}]

\* an upload that could not be deleted does not fail its page
DeletionIgnored(s, deleted) == IF s.answer = "good" THEN "store" ELSE "failed"

\* the digest of the PDF is not compared with the receipt
AnyBytes(s, found) == found # 0

\* the wrapper starts over as long as no call was made
SwitchedBack(s) ==
  IF s.lane = "primary" THEN [s EXCEPT !.lane = "freemium", !.at = "lane"]
  ELSE IF s.calls = 0 THEN [s EXCEPT !.lane = "primary", !.at = "lane"]
  ELSE [s EXCEPT !.at = "done", !.exit = 75]

-----------------------------------------------------------------------------
Becoming(c, s) ==
  /\ job' = [job EXCEPT ![c] = s]
  /\ UNCHANGED <<decided, runs>>

Goes(c, s) == Becoming(c, s) /\ UNCHANGED <<paused, cards>>

\* of a run that has ended only what it did is of interest
Exited(s, status) ==
  [NoJob EXCEPT !.at = "done", !.exit = status, !.kind = s.kind, !.calls = s.calls,
                !.stored = s.stored, !.uploads = s.uploads]

(* gigachat_run_with_failover: no run starts while the pause lasts.        *)
StartRun(c, kind, document) ==
  /\ ~ Running(job[c])
  /\ runs' = runs + 1
  /\ LET s == [NoJob EXCEPT !.kind = kind, !.document = document]
     IN job' = [job EXCEPT ![c] = IF paused THEN Exited(s, 75) ELSE [s EXCEPT !.at = "lane"]]
  /\ UNCHANGED <<paused, cards, decided>>

(* _gigachat_load_model and _gigachat_load_credential: a lane that is not  *)
(* configured ends the run, else the program starts from nothing.  The     *)
(* program for a document's card gets no further than its imports: it asks *)
(* fulltext_verification for a function that is not there.                 *)
EnterLane(c) ==
  LET s == job[c]
  IN /\ s.at = "lane"
     /\ \/ s.kind = "document" /\ Goes(c, [s EXCEPT !.at = "broken"])
        \/ s.kind = "diagrams" /\ Goes(c, [s EXCEPT !.at = "fetch"])
        \/ Goes(c, Exited(s, 1))

(* _gigachat_is_transient_failure, then one switch of the lane or a pause. *)
Switched(s) ==
  IF s.lane = "primary" THEN [s EXCEPT !.lane = "freemium", !.at = "lane"] ELSE Exited(s, 75)

LimitedLane(c) ==
  LET s == job[c]
  IN /\ s.at = "limited"
     /\ Becoming(c, Switched(s)) /\ UNCHANGED cards
     /\ paused' = (paused \/ Switched(s).at = "done")

(* Any other failure: status is $? after the if statement, which is 0.     *)
BrokenLane(c) == job[c].at = "broken" /\ Goes(c, Exited(job[c], 0))

PauseEnds == paused /\ paused' = FALSE /\ UNCHANGED <<cards, decided, job, runs>>

(* SIGINT, a crash of the machine                                          *)
RunDies(c) == Running(job[c]) /\ Goes(c, NoJob)

-----------------------------------------------------------------------------
(* load_document_identity and the PDF, which has to be the one of the      *)
(* receipt, read again from arXiv.                                         *)
SameBytes(s, found) ==
  /\ s.document.id \in PreprintIds
  /\ found = s.document.bytes

(* Whatever fails before the first page, the selection of the pages        *)
(* included, ends the program with a traceback; one that names a timeout   *)
(* or a 429 of arXiv is taken for a limit of the provider.                 *)
FetchDocument(c) ==
  /\ job[c].at = "fetch"
  /\ LET found == Resolved(job[c].document.id)
         s == [job[c] EXCEPT !.bytes = found]
     IN \/ SameBytes(s, found) /\ Goes(c, [s EXCEPT !.at = "page", !.pages = DiagramPages])
        \/ \E failure \in {"broken", "limited"} : Goes(c, [s EXCEPT !.at = failure])

CardOf(s, page) == [document |-> s.document, page |-> page, bytes |-> s.bytes]
Key(card) == <<card.document, card.page>>

(* The upsert of persist_diagram_card leaves decided cards alone.          *)
Upserts(card) ==
  /\ Key(card) \notin decided
  /\ cards' = {k \in cards : Key(k) # Key(card)} \cup {card}

(* The diagram program takes one page after the other; a page that fails   *)
(* in any way is left out.                                                 *)
PageFails(s) == [s EXCEPT !.at = "page", !.pages = @ \ {s.page}]

(* Rendering or upload fail; or the upload arrives and its answer is lost. *)
UploadPage(c) ==
  /\ job[c].at = "page" /\ job[c].pages # {}
  /\ LET s == [job[c] EXCEPT !.page = Min(job[c].pages), !.answer = "none"]
         uploaded == [s EXCEPT !.uploads = @ \cup {s.page}]
     IN \/ Goes(c, [uploaded EXCEPT !.at = "vision"])
        \/ Goes(c, PageFails(s)) \/ Goes(c, PageFails(uploaded))

AskVision(c) ==
  /\ job[c].at = "vision"
  /\ \E answer \in {"good", "bad", "limited"} :
       Goes(c, [job[c] EXCEPT !.calls = @ + 1, !.answer = answer, !.at = "delete"])

(* _vision: the finally clause; its own failure fails the page.            *)
AfterDeletion(s, deleted) == IF s.answer = "good" /\ deleted THEN "store" ELSE "failed"

DeleteUpload(c) ==
  LET s == job[c]
  IN /\ s.at = "delete"
     /\ \E deleted \in BOOLEAN :
          LET left == IF deleted THEN [s EXCEPT !.uploads = @ \ {s.page}] ELSE s
          IN Goes(c, IF AfterDeletion(s, deleted) = "store" THEN [left EXCEPT !.at = "store"]
                     ELSE PageFails(left))

StoreDiagramCard(c) ==
  LET s == job[c]
  IN /\ s.at = "store"
     /\ \/ /\ Upserts(CardOf(s, s.page)) /\ UNCHANGED paused
           /\ Becoming(c, [s EXCEPT !.at = "page", !.pages = @ \ {s.page},
                                    !.stored = @ \cup {s.page}])
        \/ Goes(c, PageFails(s))

AllPagesDone(c) ==
  LET s == job[c]
  IN /\ s.at = "page" /\ s.pages = {}
     /\ Goes(c, [s EXCEPT !.at = IF s.stored = {} THEN "broken" ELSE "output"])

WriteOutput(c) ==
  /\ job[c].at = "output"
  /\ \/ Goes(c, Exited(job[c], 0))
     \/ Goes(c, [job[c] EXCEPT !.at = "broken"])

(* review_diagram_card                                                     *)
Decide(card) ==
  /\ Key(card) \notin decided
  /\ decided' = decided \cup {Key(card)}
  /\ UNCHANGED <<paused, cards, job, runs>>

RunStep(c) ==
  \/ EnterLane(c) \/ LimitedLane(c) \/ BrokenLane(c)
  \/ FetchDocument(c) \/ UploadPage(c) \/ AskVision(c) \/ DeleteUpload(c) \/ StoreDiagramCard(c) \/ AllPagesDone(c)
  \/ WriteOutput(c)

CardNext ==
  \/ PauseEnds
  \/ \E card \in cards : Decide(card)
  \/ \E c \in Terminals :
       \/ RunStep(c) \/ RunDies(c)
       \/ \E kind \in {"document", "diagrams"}, d \in documents : StartRun(c, kind, d)

Init == IntakeInit /\ CardInit

(* MaxScripts bounds the scripts of both kinds.                            *)
WithinBound == started' + runs' <= MaxScripts

(* A terminal runs one script at a time.                                   *)
OneScriptPerTerminal == \A t \in Terminals : script'[t] # Idle => ~ Running(job'[t])

Next ==
  /\ (IntakeNext /\ UNCHANGED cardVars) \/ (CardNext /\ UNCHANGED intakeVars)
  /\ OneScriptPerTerminal /\ WithinBound

Fairness ==
  /\ \A t \in Terminals : WF_vars(ScriptStep(t) /\ UNCHANGED cardVars)
  /\ \A c \in Terminals : WF_vars(RunStep(c) /\ UNCHANGED intakeVars)

Spec == Init /\ [][Next]_vars /\ Fairness

-----------------------------------------------------------------------------
(* A page is asked about once, however its answer is lost or refused: the  *)
(* second lane repeats nothing (gigachat_run_with_failover).               *)
CallsBounded == \A c \in Terminals : job[c].calls <= Cardinality(DiagramPages)

(* A run that reports the pause (75) can be repeated as a whole: neither   *)
(* lane has stored a card (gigachat_run_with_failover).                    *)
PausedStoredNothing ==
  \A c \in Terminals : job[c].at = "done" /\ job[c].exit = 75 => job[c].stored = {}

(* "analyse diagrams with Vision, then delete uploads": no card is stored  *)
(* of a page whose image is still at the provider (_vision), whatever      *)
(* answers of the provider were lost.                                      *)
UploadsOfResultsDeleted == \A c \in Terminals : job[c].stored \cap job[c].uploads = {}

(* "PDF does not match document receipt": the bytes a card was written     *)
(* about are those of its document's receipt, although the PDF is fetched  *)
(* again and arXiv may serve another version by then.                      *)
CardsMatchReceipt ==
  \A k \in cards : k.document \in documents /\ k.bytes = k.document.bytes

(* Every intake script and every card script comes to an end.              *)
ScriptsEnd ==
  /\ IntakeEnds
  /\ \A c \in Terminals : Running(job[c]) ~> ~ Running(job[c])

(* "Create one review-required card from every extractable page of a       *)
(* verified arXiv PDF" (run_gigachat_document_card.py): a document run     *)
(* that ends with status 0 has stored a card.                              *)
SuccessStoresCard ==
  \A c \in Terminals :
    job[c].at = "done" /\ job[c].kind = "document" /\ job[c].exit = 0 => job[c].stored # {}
=============================================================================
