--------------------------- MODULE EvidenceIntake ---------------------------
(***************************************************************************)
(* How public evidence enters the corpus: discovery and targeted imports   *)
(* of metadata (it_research.py, research_evidence.py), the preflight queue *)
(* (fulltext_candidate_queue.py), proofs of open licences and receipts of  *)
(* PDFs (license_verification.py, publisher_evidence.py,                   *)
(* fulltext_verification.py, publisher_fulltext_verification.py).          *)
(* An operator runs one script at a terminal; every request and every      *)
(* transaction is a step, preprints get new versions in between, and a     *)
(* script may die anywhere.                                                *)
(***************************************************************************)
EXTENDS RangeFetch, FiniteSets, FiniteSetsExt

CONSTANTS
  Preprints,   \* arXiv papers
  Articles,    \* F1000 articles, each of one version
  MaxVersion,  \* bound: versions of a preprint
  Licensed,    \* <<work, version>> published under CC BY 4.0 or CC0
  Priority,    \* _priority of a preprint's assessment
  QueueLimit,  \* --limit of the queue
  Terminals,   \* where operators run intake scripts
  MaxScripts   \* bound: intake scripts ever started

\* an arXiv identifier without version is version 0
Versions == 1 .. MaxVersion
PreprintIds == [work : Preprints, version : 0 .. MaxVersion]
ArticleIds == [work : Articles, version : {1}]
Ids == PreprintIds \cup ArticleIds

ASSUME IntakeAssumption ==
  /\ MaxVersion \in Nat \ {0} /\ MaxScripts \in Nat /\ QueueLimit \in 1 .. 20
  /\ Preprints \cap Articles = {}
  /\ Licensed \subseteq (Preprints \cup Articles) \X Versions
  /\ Priority \in [Preprints -> Nat]

VARIABLES
  latest,     \* the newest version of each preprint
  sources,    \* sources, by the identifier in their URL
  licences,   \* license_receipts and publisher_html_receipts
  documents,  \* document receipts
  queue,      \* latest-arxiv-fulltext-preflight.json
  script,     \* the script at each terminal
  started     \* intake scripts started so far

intakeVars == <<latest, sources, licences, documents, queue, script, started>>
storage == <<sources, licences, documents>>

Providers == {"arxiv", "openalex", "crossref"}
Kinds == {"search", "import", "cycle", "verify", "html"}
Stages == {"search", "conclude", "atom", "fallback", "doi", "persist",
           "licence", "pdf", "ranges", "receipt", "document"}

NoId == [work |-> "none", version |-> 0]
Idle == [at |-> "idle", kind |-> "none", id |-> NoId, asked |-> {}, found |-> {},
         sound |-> TRUE, page |-> 0, bytes |-> 0, fetch |-> NoBytes]

Scripts ==
  [at : Stages, kind : Kinds, id : Ids \cup {NoId}, asked : SUBSET Providers,
   found : SUBSET (Providers \X Ids), sound : BOOLEAN, page : 0 .. MaxVersion,
   bytes : 0 .. MaxVersion, fetch : Fetches]

Routes == {"cycle", "verify"}

IntakeTypeOK ==
  /\ latest \in [Preprints -> Versions]
  /\ sources \subseteq Ids
  /\ licences \subseteq [source : Ids, page : Versions]
  /\ documents \subseteq [id : Ids, bytes : Versions, route : Routes]
  /\ queue \subseteq PreprintIds
  /\ script \in [Terminals -> Scripts \cup {Idle}]
  /\ started \in 0 .. MaxScripts

IntakeInit ==
  /\ latest = [w \in Preprints |-> 1]
  /\ sources = {} /\ licences = {} /\ documents = {} /\ queue = {}
  /\ script = [t \in Terminals |-> Idle]
  /\ started = 0

(* The version an identifier leads to at the moment, 0 if there is none.   *)
Resolved(id) ==
  IF id.work \in Articles THEN 1
  ELSE IF id.version = 0 THEN latest[id.work]
  ELSE IF id.version <= latest[id.work] THEN id.version ELSE 0

-----------------------------------------------------------------------------
(* Deliberate mistakes: each shows which property catches it.              *)

\* the PDF is fetched without the version
NewestOf(id) == IF id.work \in Articles THEN 1 ELSE latest[id.work]

-----------------------------------------------------------------------------
(* The order of a script's stages.                                         *)
Following(s) ==
  CASE s.at = "licence" -> IF s.kind = "html" THEN "receipt"
                           ELSE IF s.id.work \in Articles THEN "ranges" ELSE "pdf"
    [] s.at \in {"pdf", "ranges"} -> IF s.kind = "cycle" THEN "receipt" ELSE "document"
    [] s.at = "receipt" -> IF s.kind = "cycle" THEN "document" ELSE "idle"
    [] OTHER -> "idle"

Moved(s, stage) == IF stage = "idle" THEN Idle ELSE [s EXCEPT !.at = stage]

(* Terminal t goes on as s; nothing is stored.                             *)
Becomes(t, s) ==
  /\ script' = [script EXCEPT ![t] = s]
  /\ UNCHANGED <<latest, storage, queue, started>>

Started(t, stage, kind, id) ==
  /\ script[t] = Idle /\ started < MaxScripts
  /\ started' = started + 1
  /\ script' = [script EXCEPT ![t] = [Idle EXCEPT !.at = stage, !.kind = kind, !.id = id]]
  /\ UNCHANGED <<latest, storage, queue>>

(* arXiv: authors replace a preprint.                                      *)
PublishVersion(w) ==
  /\ latest[w] < MaxVersion
  /\ latest' = [latest EXCEPT ![w] = @ + 1]
  /\ UNCHANGED <<storage, queue, script, started>>

(* An uncaught exception, a failed write or a signal ends a script.        *)
ScriptFails(t) == script[t] # Idle /\ Becomes(t, Idle)

-----------------------------------------------------------------------------
(* Discovery: run_it_research asks the providers one after the other.      *)

StartSearch(t) == Started(t, "search", "search", NoId)

(* Records that search_arxiv, search_openalex and search_crossref return:  *)
(* arXiv names the version of a preprint, the others know articles by DOI. *)
FoundAt(p) ==
  IF p = "arxiv" THEN {[work |-> w, version |-> latest[w]] : w \in Preprints} ELSE ArticleIds

NextProvider(s) ==
  CASE s.asked = {} -> "arxiv" [] s.asked = {"arxiv"} -> "openalex" [] OTHER -> "crossref"

(* A provider that is unavailable or finds nothing is skipped; of what it  *)
(* finds a record may be one that require_public_evidence refuses, such as *)
(* a publication dated ahead of today.                                     *)
SearchProvider(t) ==
  LET s == script[t]
      p == NextProvider(s)
  IN /\ s.at = "search"
     /\ \E items \in SUBSET FoundAt(p), sound \in BOOLEAN :
          /\ items = {} => sound
          /\ Becomes(t, [s EXCEPT !.asked = @ \cup {p},
                                  !.found = @ \cup {<<p, i>> : i \in items},
                                  !.sound = @ /\ sound,
                                  !.at = IF p = "crossref" THEN "conclude" ELSE "search"])

(* build_research_review_report: two records, of two domains, all sound;   *)
(* one record that is not ends the run.                                    *)
Conclude(t) ==
  LET s == script[t]
      sufficient == /\ s.sound /\ Cardinality(s.found) >= 2
                    /\ Cardinality({f[1] : f \in s.found}) >= 2
  IN s.at = "conclude" /\ Becomes(t, Moved(s, IF sufficient THEN "persist" ELSE "idle"))

(* import_arxiv_record.py: the Atom interface has to return exactly the    *)
(* identifier asked for, and its records carry a version; when it does not *)
(* answer, the abstract page of the identifier is asked once.              *)
StartImport(t, id) ==
  Started(t, IF id \in PreprintIds THEN "atom" ELSE "doi", "import", id)

LookupArxivIdentifier(t) ==
  LET s == script[t]
  IN /\ s.at = "atom"
     /\ \/ Becomes(t, Moved(s, IF s.id.version # 0 /\ Resolved(s.id) # 0 THEN "persist" ELSE "idle"))
        \/ Becomes(t, Moved(s, "fallback"))

LookupAbstractPage(t) ==
  /\ script[t].at = "fallback"
  /\ Becomes(t, Moved(script[t], IF Resolved(script[t].id) # 0 THEN "persist" ELSE "idle"))

(* import_openalex_doi_record.py                                           *)
LookupDoi(t) == script[t].at = "doi" /\ Becomes(t, Moved(script[t], "persist"))

(* persist_run                                                             *)
PersistSources(t) ==
  LET s == script[t]
  IN /\ s.at = "persist"
     /\ sources' = sources \cup (IF s.kind = "search" THEN {f[2] : f \in s.found} ELSE {s.id})
     /\ script' = [script EXCEPT ![t] = Idle]
     /\ UNCHANGED <<latest, licences, documents, queue, started>>

(* queue_arxiv_fulltext_preflight.py: the sources that come first by       *)
(* priority and then by a digest, which orders those of one priority in    *)
(* some way.  No claim is recorded here, so that all are metadata_observed.*)
BuildQueue ==
  LET candidates == sources \cap PreprintIds
      size == IF Cardinality(candidates) < QueueLimit THEN Cardinality(candidates) ELSE QueueLimit
  IN /\ \E selected \in kSubset(size, candidates) :
          /\ \A i \in selected, j \in candidates \ selected : Priority[i.work] >= Priority[j.work]
          /\ queue' = selected
     /\ UNCHANGED <<latest, storage, script, started>>

-----------------------------------------------------------------------------
(* Licences and documents.                                                 *)

(* run_arxiv_fulltext_cycle.py, run_f1000_fulltext_cycle.py and            *)
(* run_f1000_html_evidence.py take any identifier, whether the queue names *)
(* it or a source has it (that of the source key, which is an argument of  *)
(* its own), verify_open_access_pdf.py any preprint, with a licence from   *)
(* the command line.                                                       *)
StartCycle(t, id) == Started(t, "licence", "cycle", id)
StartVerify(t, id) == id \in PreprintIds /\ Started(t, "pdf", "verify", id)
StartHtml(t, id) == id \in ArticleIds /\ Started(t, "licence", "html", id)

(* verify_arxiv_license and verify_f1000_article                           *)
CheckLicence(t) ==
  LET s == script[t]
      page == Resolved(s.id)
      open == page # 0 /\ <<s.id.work, page>> \in Licensed
  IN /\ s.at = "licence"
     /\ Becomes(t, IF open THEN Moved([s EXCEPT !.page = page], Following(s)) ELSE Idle)

(* OpenAccessPdfRequest.url                                                *)
PdfVersion(id) == Resolved(id)

(* verify_open_access_pdf                                                  *)
FetchPdf(t) ==
  LET s == script[t]
      found == PdfVersion(s.id)
  IN /\ s.at = "pdf"
     /\ Becomes(t, IF found # 0 THEN Moved([s EXCEPT !.bytes = found], Following(s)) ELSE Idle)

(* _read_static_pdf_ranges and the rest of verify_f1000_open_access_pdf    *)
ReadRange(t) ==
  LET s == script[t]
  IN /\ s.at = "ranges"
     /\ \E a \in Answers :
          LET fetch == Extended(s.fetch, a)
          IN Becomes(t, IF ~ Accepts(s.fetch, a) THEN Idle
                        ELSE IF Complete(fetch)
                        THEN Moved([s EXCEPT !.fetch = fetch, !.bytes = 1], Following(s))
                        ELSE [s EXCEPT !.fetch = fetch])

(* persist_license_receipt and persist_publisher_html_receipt: the source  *)
(* has to exist, and a repeated proof refreshes its row.                   *)
PersistReceipt(t) ==
  LET s == script[t]
      known == s.id \in sources
  IN /\ s.at = "receipt"
     /\ licences' = IF known THEN licences \cup {[source |-> s.id, page |-> s.page]} ELSE licences
     /\ script' = [script EXCEPT ![t] = Moved(s, IF known THEN Following(s) ELSE "idle")]
     /\ UNCHANGED <<latest, sources, documents, queue, started>>

(* persist_fulltext_receipt: the row of a source and a digest keeps the    *)
(* licence it was inserted with.                                           *)
PersistFulltext(t) ==
  LET s == script[t]
      stored == \E d \in documents : d.id = s.id /\ d.bytes = s.bytes
  IN /\ s.at = "document"
     /\ documents' = IF s.id \in sources /\ ~ stored
                     THEN documents \cup {[id |-> s.id, bytes |-> s.bytes, route |-> s.kind]}
                     ELSE documents
     /\ script' = [script EXCEPT ![t] = Moved(s, IF s.id \in sources THEN Following(s) ELSE "idle")]
     /\ UNCHANGED <<latest, sources, licences, queue, started>>

ScriptStep(t) ==
  \/ SearchProvider(t) \/ Conclude(t)
  \/ LookupArxivIdentifier(t) \/ LookupAbstractPage(t) \/ LookupDoi(t) \/ PersistSources(t)
  \/ CheckLicence(t) \/ FetchPdf(t) \/ ReadRange(t) \/ PersistReceipt(t) \/ PersistFulltext(t)

IntakeNext ==
  \/ \E w \in Preprints : PublishVersion(w)
  \/ BuildQueue
  \/ \E t \in Terminals :
       \/ StartSearch(t) \/ ScriptStep(t) \/ ScriptFails(t)
       \/ \E id \in Ids : StartImport(t, id) \/ StartCycle(t, id) \/ StartVerify(t, id) \/ StartHtml(t, id)

IntakeFairness == \A t \in Terminals : WF_intakeVars(ScriptStep(t))
IntakeSpec == IntakeInit /\ [][IntakeNext]_intakeVars /\ IntakeFairness

-----------------------------------------------------------------------------
(* A PDF that came in ranges is complete, in order and within the size     *)
(* limit when its receipt is made (_read_static_pdf_ranges), whatever the  *)
(* host answered.                                                          *)
AssembledIsWhole ==
  \A t \in Terminals :
    LET s == script[t]
    IN s.kind = "cycle" /\ s.id.work \in Articles /\ s.at \in {"receipt", "document"} =>
         /\ s.fetch.total \in 1 .. MaxBytes
         /\ s.fetch.payload = FileBytes(s.fetch.total)

(* "Run licence proof then bounded full-text receipt"                      *)
(* (run_arxiv_fulltext_cycle.py): a document stored by a cycle under an    *)
(* identifier with a version has bytes of an openly licensed version, and  *)
(* the proof of exactly that version is stored, even if the script died    *)
(* right after or authors replaced the paper meanwhile.                    *)
DocumentIsLicensed ==
  \A d \in documents :
    d.route = "cycle" /\ d.id.version # 0 =>
      /\ <<d.id.work, d.bytes>> \in Licensed
      /\ [source |-> d.id, page |-> d.bytes] \in licences

(* Every intake script comes to an end.                                    *)
IntakeEnds == \A t \in Terminals : script[t] # Idle ~> script[t] = Idle

-----------------------------------------------------------------------------
(* Statements the code does not keep.                                      *)

(* An identifier without version names another paper after a replacement:  *)
(* the licence of one version is proved and the bytes of another stored.   *)
UnversionedIsLicensed ==
  \A d \in documents : d.route = "cycle" => <<d.id.work, d.bytes>> \in Licensed

(* The queue does not name sources whose document has been stored.         *)
QueueNamesOpenWork ==
  [][queue' # queue => \A i \in queue' : \A d \in documents : d.id # i]_intakeVars
=============================================================================
