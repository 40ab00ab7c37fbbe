------------------------- MODULE CardScriptsProofs -------------------------
(***************************************************************************)
(* Proofs about the card scripts beside the intake, for any number of      *)
(* terminals, documents and pages.  The invariant says what a run relies   *)
(* on at each stage: the bytes it has read, the calls it has left, the     *)
(* pages it has yet to treat and the uploads it has to delete.             *)
(***************************************************************************)
EXTENDS CardScripts, EvidenceIntakeProofs, FiniteSetTheorems, WellFoundedInduction

(* A run under way is about a stored document, and once it treats pages    *)
(* about the bytes of that document's receipt.                             *)
Staged(s, held) ==
  /\ Running(s) => s.document \in held
  /\ s.at \in {"page", "vision", "delete", "store"} => s.bytes = s.document.bytes

(* Pages a run has treated, and the uploads it has left behind.            *)
Tidy(s) ==
  /\ s.at \in {"lane", "fetch", "limited"} => s.stored = {}
  /\ s.at = "done" /\ s.exit = 75 => s.stored = {}
  /\ s.stored \cap s.uploads = {}
  /\ s.at \in {"page", "vision", "delete", "store"} => s.stored \cap s.pages = {}
  /\ s.at \in {"vision", "delete", "store"} => s.page \in s.pages
  /\ s.at = "store" => s.page \notin s.uploads

(* Calls made and pages left add up to the pages asked for.                *)
Thrifty(s) ==
  /\ s.at \in {"lane", "fetch", "limited"} => s.calls = 0
  /\ s.at \in {"page", "vision"} => s.calls + Cardinality(s.pages) <= Cardinality(DiagramPages)
  /\ s.at \in {"delete", "store"} => s.calls + Cardinality(s.pages) <= Cardinality(DiagramPages) + 1
  /\ s.calls <= Cardinality(DiagramPages)

GoodRun(s, held) == s \in Jobs /\ Staged(s, held) /\ Tidy(s) /\ Thrifty(s)

CardInv ==
  /\ CardTypeOK
  /\ CardsMatchReceipt
  /\ \A c \in Terminals : GoodRun(job[c], documents)

Inv == IntakeInv /\ CardInv

-----------------------------------------------------------------------------
(* Pages.                                                                  *)

LEMMA Bounds ==
  /\ PageCount \in Nat /\ PageCount >= 1 /\ MaxVersion \in Nat /\ MaxScripts \in Nat
  /\ DiagramPages \subseteq 1 .. PageCount
  BY CardAssumption, IntakeAssumption

LEMMA MinIsMember ==
  ASSUME NEW S \in SUBSET Nat, S # {}
  PROVE  Min(S) \in S
<1> DEFINE R == OpToRel(<, Nat)
<1>1. \A x \in S, y \in S : y < x => <<y, x>> \in R
  BY DEF OpToRel
<1>2. IsWellFoundedOn(R, Nat)
  BY NatLessThanWellFounded
<1> HIDE DEF R
<1>3. PICK x \in S : \A y \in S : ~ (<<y, x>> \in R)
  BY <1>2, WFMin
<1>4. ASSUME NEW y \in S PROVE x =< y
  <2>1. ~ (y < x)
    BY <1>1, <1>3, Zenon
  <2> QED
    BY <2>1
<1> QED
  BY <1>4 DEF Min

LEMMA PagesFinite ==
  ASSUME NEW P \in SUBSET (1 .. PageCount)
  PROVE  IsFiniteSet(P) /\ Cardinality(P) \in Nat
<1>1. IsFiniteSet(1 .. PageCount)
  BY Bounds, FS_Interval
<1>2. IsFiniteSet(P)
  BY <1>1, FS_Subset
<1> QED
  BY <1>2, FS_CardinalityType

LEMMA Budget == Cardinality(DiagramPages) \in Nat
  BY Bounds, PagesFinite

-----------------------------------------------------------------------------
(* What a run becomes.                                                     *)

LEMMA NoJobIsJob == NoJob \in Jobs
<1>1. 0 \in 0 .. MaxVersion /\ 0 \in 0 .. PageCount
  BY Bounds
<1> QED
  BY <1>1 DEF NoJob, Jobs, Places

LEMMA NoJobIsGood == \A held : GoodRun(NoJob, held)
<1>1. NoJob.at = "idle" /\ NoJob.calls = 0 /\ NoJob.stored = {}
  BY DEF NoJob
<1> QED
  BY <1>1, NoJobIsJob, Budget DEF GoodRun, Staged, Tidy, Thrifty, Running

(* More stored documents take nothing away.                                *)
LEMMA GoodRunWithMore ==
  ASSUME NEW s, NEW held, NEW more, held \subseteq more, GoodRun(s, held)
  PROVE  GoodRun(s, more)
  BY DEF GoodRun, Staged

(* The record a run leaves behind.                                         *)
LEMMA ExitedIsJob ==
  ASSUME NEW s \in Jobs, NEW status \in {0, 1, 75}
  PROVE  LET e == Exited(s, status)
         IN /\ e \in Jobs /\ e.at = "done" /\ e.exit = status
            /\ e.kind = s.kind /\ e.calls = s.calls
            /\ e.stored = s.stored /\ e.uploads = s.uploads
<1> DEFINE k == s.kind  u == s.uploads  d == s.stored  n == s.calls
           e == [NoJob EXCEPT !.at = "done", !.exit = status, !.kind = k, !.calls = n,
                              !.stored = d, !.uploads = u]
<1>1. Exited(s, status) = e
  BY DEF Exited
<1>2. /\ k \in {"none", "document", "diagrams"} /\ u \in SUBSET (1 .. PageCount)
      /\ d \in SUBSET (1 .. PageCount) /\ n \in Nat
  BY DEF Jobs
<1>3. "done" \in Places
  BY DEF Places
<1> HIDE DEF k, u, d, n
<1>4. e \in Jobs
  <2> DEFINE ended == [NoJob EXCEPT !.at = "done"]
             begun == [ended EXCEPT !.exit = status, !.kind = k]
  <2>1. begun \in Jobs
    <3> DEFINE left == [ended EXCEPT !.exit = status]
    <3>1. ended \in Jobs
      BY <1>3, NoJobIsJob DEF Jobs
    <3> HIDE DEF ended
    <3>2. left \in Jobs
      BY <3>1 DEF Jobs
    <3>3. begun = [left EXCEPT !.kind = k]
      BY <3>1 DEF Jobs
    <3> HIDE DEF begun, left
    <3> QED
      BY <1>2, <3>2, <3>3 DEF Jobs
  <2>2. e = [begun EXCEPT !.calls = n, !.stored = d, !.uploads = u]
    BY NoJobIsJob DEF Jobs
  <2> HIDE DEF e, begun
  <2> QED
    BY <1>2, <2>1, <2>2 DEF Jobs
<1>5. e.at = "done" /\ e.exit = status /\ e.kind = k
  BY NoJobIsJob DEF Jobs
<1>6. e.calls = n /\ e.stored = d /\ e.uploads = u
  BY NoJobIsJob DEF Jobs
<1> HIDE DEF e
<1> QED
  BY <1>1, <1>4, <1>5, <1>6 DEF k, u, d, n

LEMMA ExitedIsGood ==
  ASSUME NEW s, NEW held, GoodRun(s, held), Running(s), NEW status \in {0, 1, 75},
         status = 75 => s.stored = {}
  PROVE  /\ GoodRun(Exited(s, status), held)
         /\ Exited(s, status) \in Jobs /\ Exited(s, status).at = "done"
<1> DEFINE e == Exited(s, status)
<1>1. s \in Jobs
  BY DEF GoodRun
<1>2. /\ e \in Jobs /\ e.at = "done" /\ e.exit = status /\ e.kind = s.kind /\ e.calls = s.calls
      /\ e.stored = s.stored /\ e.uploads = s.uploads
  BY <1>1, ExitedIsJob
<1> HIDE DEF e
<1>3. Staged(e, held)
  BY <1>2 DEF GoodRun, Staged, Running
<1>4. Tidy(e)
  BY <1>2 DEF GoodRun, Tidy
<1>5. Thrifty(e)
  BY <1>2 DEF GoodRun, Thrifty
<1> QED
  BY <1>2, <1>3, <1>4, <1>5 DEF GoodRun, e

(* The run at terminal c goes on as s; no card is stored.                  *)
LEMMA RunBecomesGood ==
  ASSUME CardInv, NEW c \in Terminals, NEW s, GoodRun(s, documents), Becoming(c, s),
         cards' = cards, paused' \in BOOLEAN, documents' = documents
  PROVE  CardInv'
<1>1. decided' = decided /\ runs' = runs /\ job' = [job EXCEPT ![c] = s]
  BY DEF Becoming
<1>2. s \in Jobs
  BY DEF GoodRun
<1>3. CardTypeOK'
  BY <1>1, <1>2 DEF CardInv, CardTypeOK
<1>4. \A d \in Terminals : GoodRun(job'[d], documents')
  BY <1>1 DEF CardInv, CardTypeOK
<1>5. CardsMatchReceipt'
  BY DEF CardInv, CardsMatchReceipt
<1> QED
  BY <1>3, <1>4, <1>5 DEF CardInv

LEMMA GoesGood ==
  ASSUME CardInv, NEW c \in Terminals, NEW s, GoodRun(s, documents), Goes(c, s),
         documents' = documents
  PROVE  CardInv'
  BY RunBecomesGood DEF Goes, CardInv, CardTypeOK

LEMMA RunIsGood ==
  ASSUME CardInv, NEW c \in Terminals
  PROVE  job[c] \in Jobs /\ GoodRun(job[c], documents)
  BY DEF CardInv, GoodRun

-----------------------------------------------------------------------------
(* The wrapper.                                                            *)

LEMMA StartRunGood ==
  ASSUME IntakeTypeOK, CardInv, NEW c \in Terminals, NEW kind \in {"document", "diagrams"},
         NEW d \in documents, StartRun(c, kind, d), WithinBound, UNCHANGED intakeVars
  PROVE  CardInv'
<1> DEFINE s == [NoJob EXCEPT !.kind = kind, !.document = d]
           n == [s EXCEPT !.at = "lane"]
<1>1. d \in Documents /\ documents' = documents
  BY DEF IntakeTypeOK, Documents, intakeVars
<1>2. s \in Jobs
  BY <1>1, NoJobIsJob DEF Jobs
<1>3. /\ s.kind = kind /\ s.document = d
      /\ s.calls = 0 /\ s.stored = {} /\ s.uploads = {}
  BY DEF NoJob
<1> HIDE DEF s
<1>4. /\ n \in Jobs /\ n.at = "lane" /\ n.kind = kind /\ n.document = d
      /\ n.calls = 0 /\ n.stored = {} /\ n.uploads = {}
  BY <1>2, <1>3 DEF Jobs, Places
<1> HIDE DEF n
<1>5. GoodRun(n, documents)
  <2>1. Staged(n, documents) /\ Tidy(n)
    BY <1>4 DEF Staged, Tidy
  <2>2. Thrifty(n)
    BY <1>4, Budget DEF Thrifty
  <2> QED
    BY <1>4, <2>1, <2>2 DEF GoodRun
<1> DEFINE e == Exited(s, 75)
<1>6. GoodRun(e, documents)
  <2>1. /\ e \in Jobs /\ e.at = "done" /\ e.kind = kind /\ e.calls = 0
    BY <1>2, <1>3, ExitedIsJob
  <2>2. e.stored = {} /\ e.uploads = {}
    BY <1>2, <1>3, ExitedIsJob
  <2> HIDE DEF e
  <2>3. Staged(e, documents) /\ Tidy(e)
    BY <2>1, <2>2 DEF Staged, Tidy, Running
  <2>4. Thrifty(e)
    BY <2>1, Budget DEF Thrifty
  <2> QED
    BY <2>1, <2>3, <2>4 DEF GoodRun
<1> HIDE DEF e
<1>7. /\ paused' = paused /\ cards' = cards /\ decided' = decided /\ runs' = runs + 1
      /\ job' = [job EXCEPT ![c] = IF paused THEN e ELSE n]
  BY DEF StartRun, e, n, s
<1>8. runs' \in 0 .. MaxScripts
  <2>1. runs \in Nat
    BY Bounds DEF CardInv, CardTypeOK
  <2>2. started' \in Nat
    BY Bounds DEF IntakeTypeOK, intakeVars
  <2>3. runs' = runs + 1
    BY <1>7
  <2>4. started' + runs' <= MaxScripts
    BY DEF WithinBound
  <2>5. MaxScripts \in Nat
    BY Bounds
  <2>6. runs' \in Nat
    BY <2>1, <2>3
  <2>7. runs' <= MaxScripts
    <3>1. \A a, b, m \in Nat : a + b <= m => b <= m
      OBVIOUS
    <3> QED
      BY <2>2, <2>4, <2>5, <2>6, <3>1
  <2> QED
    BY <2>5, <2>6, <2>7
<1>9. CardTypeOK'
  BY <1>5, <1>6, <1>7, <1>8 DEF CardInv, CardTypeOK, GoodRun
<1>10. \A t \in Terminals : GoodRun(job'[t], documents')
  BY <1>1, <1>5, <1>6, <1>7 DEF CardInv, CardTypeOK
<1>11. CardsMatchReceipt'
  BY <1>1, <1>7 DEF CardInv, CardsMatchReceipt
<1> QED
  BY <1>9, <1>10, <1>11 DEF CardInv

(* A run whose place changes keeps everything else.                        *)
LEMMA OnlyMoved ==
  ASSUME NEW s \in Jobs, NEW place \in Places
  PROVE  LET n == [s EXCEPT !.at = place]
         IN /\ n \in Jobs /\ n.at = place
            /\ n.document = s.document /\ n.bytes = s.bytes /\ n.pages = s.pages
            /\ n.page = s.page /\ n.uploads = s.uploads /\ n.stored = s.stored
            /\ n.calls = s.calls
<1> DEFINE n == [s EXCEPT !.at = place]
<1>1. n \in Jobs /\ n.at = place
  <2>1. n \in Jobs
    BY DEF Jobs
  <2>2. n.at = place
    BY DEF Jobs
  <2> QED
    BY <2>1, <2>2
<1>2. n.document = s.document /\ n.bytes = s.bytes /\ n.pages = s.pages
  BY DEF Jobs
<1>3. n.page = s.page /\ n.uploads = s.uploads /\ n.stored = s.stored /\ n.calls = s.calls
  BY DEF Jobs
<1> QED
  BY <1>1, <1>2, <1>3

(* A failed run relies on nothing but the bound on its calls.              *)
LEMMA BrokenIsGood ==
  ASSUME NEW s, NEW held, GoodRun(s, held), Running(s)
  PROVE  GoodRun([s EXCEPT !.at = "broken"], held)
<1> DEFINE n == [s EXCEPT !.at = "broken"]
<1>1. s \in Jobs /\ "broken" \in Places
  BY DEF GoodRun, Places
<1>2. /\ n \in Jobs /\ n.at = "broken" /\ n.document = s.document
      /\ n.uploads = s.uploads /\ n.stored = s.stored /\ n.calls = s.calls
  BY <1>1, OnlyMoved
<1> HIDE DEF n
<1>3. Staged(n, held) /\ Tidy(n)
  BY <1>2 DEF GoodRun, Staged, Tidy
<1>4. Thrifty(n)
  BY <1>2 DEF GoodRun, Thrifty
<1> QED
  BY <1>2, <1>3, <1>4 DEF GoodRun, n

(* So does one that has not begun with its pages.                          *)
LEMMA UnbegunIsGood ==
  ASSUME NEW s, NEW held, GoodRun(s, held), s.at \in {"lane", "fetch"},
         NEW place \in {"lane", "fetch", "limited"}
  PROVE  GoodRun([s EXCEPT !.at = place], held)
<1> DEFINE n == [s EXCEPT !.at = place]
<1>1. s \in Jobs /\ place \in Places
  BY DEF GoodRun, Places
<1>2. /\ n \in Jobs /\ n.at = place /\ n.document = s.document
      /\ n.uploads = s.uploads /\ n.stored = s.stored /\ n.calls = s.calls
  BY <1>1, OnlyMoved
<1> HIDE DEF n
<1>3. Staged(n, held) /\ Tidy(n)
  BY <1>2 DEF GoodRun, Staged, Tidy, Running
<1>4. Thrifty(n)
  BY <1>2 DEF GoodRun, Thrifty
<1> QED
  BY <1>2, <1>3, <1>4 DEF GoodRun, n

LEMMA EnterLaneGood ==
  ASSUME CardInv, NEW c \in Terminals, EnterLane(c), documents' = documents
  PROVE  CardInv'
<1> DEFINE s == job[c]
<1>1. s.at = "lane" /\ Running(s) /\ GoodRun(s, documents)
  BY RunIsGood DEF EnterLane, Running
<1>2. \/ Goes(c, [s EXCEPT !.at = "broken"]) \/ Goes(c, [s EXCEPT !.at = "fetch"])
      \/ Goes(c, Exited(s, 1))
  BY DEF EnterLane
<1>3. GoodRun([s EXCEPT !.at = "broken"], documents)
  BY <1>1, BrokenIsGood
<1>4. GoodRun([s EXCEPT !.at = "fetch"], documents)
  BY <1>1, UnbegunIsGood
<1>5. GoodRun(Exited(s, 1), documents)
  BY <1>1, ExitedIsGood
<1> QED
  BY <1>2, <1>3, <1>4, <1>5, GoesGood

LEMMA LimitedLaneGood ==
  ASSUME CardInv, NEW c \in Terminals, LimitedLane(c), documents' = documents
  PROVE  CardInv'
<1> DEFINE s == job[c]
           n == [s EXCEPT !.lane = "freemium", !.at = "lane"]
<1>1. s.at = "limited" /\ Running(s) /\ s \in Jobs /\ GoodRun(s, documents)
  BY RunIsGood DEF LimitedLane, Running
<1>2. Becoming(c, Switched(s)) /\ cards' = cards /\ paused' \in BOOLEAN
  BY DEF LimitedLane, CardInv, CardTypeOK
<1>3. CASE s.lane = "primary"
  <2>1. /\ n \in Jobs /\ n.at = "lane" /\ n.document = s.document
        /\ n.calls = s.calls /\ n.stored = s.stored /\ n.uploads = s.uploads
    BY <1>1 DEF Jobs, Places
  <2>2. Switched(s) = n
    BY <1>3 DEF Switched
  <2> HIDE DEF n
  <2>3. Staged(n, documents) /\ Tidy(n)
    BY <1>1, <2>1 DEF GoodRun, Staged, Tidy, Running
  <2>4. Thrifty(n)
    BY <1>1, <2>1 DEF GoodRun, Thrifty
  <2> QED
    BY <1>2, <2>1, <2>2, <2>3, <2>4, RunBecomesGood DEF GoodRun
<1>4. CASE s.lane # "primary"
  <2>1. s.stored = {}
    BY <1>1 DEF GoodRun, Tidy
  <2> QED
    BY <1>1, <1>2, <1>4, <2>1, ExitedIsGood, RunBecomesGood DEF Switched
<1> QED
  BY <1>3, <1>4

LEMMA BrokenLaneGood ==
  ASSUME CardInv, NEW c \in Terminals, BrokenLane(c), documents' = documents
  PROVE  CardInv'
<1>1. job[c].at = "broken" /\ Running(job[c]) /\ GoodRun(job[c], documents)
  BY RunIsGood DEF BrokenLane, Running
<1> QED
  BY <1>1, ExitedIsGood, GoesGood DEF BrokenLane

-----------------------------------------------------------------------------
(* The document and its pages.                                             *)

LEMMA FetchDocumentGood ==
  ASSUME IntakeTypeOK, CardInv, NEW c \in Terminals, FetchDocument(c), documents' = documents
  PROVE  CardInv'
<1> DEFINE j == job[c]
           found == Resolved(j.document.id)
           s == [j EXCEPT !.bytes = found]
<1>1. j.at = "fetch" /\ Running(j) /\ j \in Jobs /\ GoodRun(j, documents)
  BY RunIsGood DEF FetchDocument, Running
<1>2. j.document \in documents
  BY <1>1 DEF GoodRun, Staged
<1>3. found \in 0 .. MaxVersion
  BY <1>2, ResolvedIsVersion DEF IntakeTypeOK
<1>4. /\ s \in Jobs /\ s.at = "fetch" /\ s.bytes = found /\ s.document = j.document
      /\ s.uploads = j.uploads /\ s.stored = j.stored /\ s.calls = j.calls
  BY <1>1, <1>3 DEF Jobs
<1>5. \/ /\ found = j.document.bytes
         /\ Goes(c, [s EXCEPT !.at = "page", !.pages = DiagramPages])
      \/ \E failure \in {"broken", "limited"} : Goes(c, [s EXCEPT !.at = failure])
  BY DEF FetchDocument, SameBytes
<1> HIDE DEF s, found
<1>6. s.stored = {} /\ s.calls = 0
  BY <1>1, <1>4 DEF GoodRun, Tidy, Thrifty
<1>7. GoodRun(s, documents)
  <2>1. Staged(s, documents) /\ Tidy(s)
    BY <1>2, <1>4, <1>6 DEF Staged, Tidy
  <2>2. Thrifty(s)
    BY <1>4, <1>6, Budget DEF Thrifty
  <2> QED
    BY <1>4, <2>1, <2>2 DEF GoodRun
<1>8. ASSUME NEW failure \in {"broken", "limited"}
      PROVE  GoodRun([s EXCEPT !.at = failure], documents)
  BY <1>4, <1>7, BrokenIsGood, UnbegunIsGood DEF Running
<1>9. CASE /\ found = j.document.bytes
           /\ Goes(c, [s EXCEPT !.at = "page", !.pages = DiagramPages])
  <2> DEFINE n == [s EXCEPT !.at = "page", !.pages = DiagramPages]
  <2>1. n \in Jobs
    BY <1>4, Bounds DEF Jobs, Places
  <2>2. /\ n.at = "page" /\ n.document = s.document /\ n.uploads = s.uploads
        /\ n.stored = {} /\ n.calls = 0 /\ n.bytes = found /\ n.pages = DiagramPages
    BY <1>4, <1>6 DEF Jobs
  <2> HIDE DEF n
  <2>3. Staged(n, documents) /\ Tidy(n)
    BY <1>2, <1>4, <1>9, <2>2 DEF Staged, Tidy
  <2>4. Thrifty(n)
    BY <2>2, Budget DEF Thrifty
  <2>5. GoodRun(n, documents)
    BY <2>1, <2>3, <2>4 DEF GoodRun
  <2> QED
    BY <1>9, <2>5, GoesGood DEF n
<1> QED
  BY <1>5, <1>8, <1>9, GoesGood

LEMMA StoresGood ==
  ASSUME IntakeTypeOK, CardInv, NEW c \in Terminals, NEW s, GoodRun(s, documents),
         NEW page \in 1 .. PageCount, job[c].document \in documents,
         job[c].bytes = job[c].document.bytes,
         Upserts(CardOf(job[c], page)), paused' = paused, Becoming(c, s), documents' = documents
  PROVE  CardInv'
<1> DEFINE j == job[c]
           card == CardOf(j, page)
<1>1. decided' = decided /\ runs' = runs /\ job' = [job EXCEPT ![c] = s]
  BY DEF Becoming
<1>2. cards' \subseteq cards \cup {card}
  BY DEF Upserts
<1>3. j \in Jobs /\ s \in Jobs
  BY RunIsGood DEF GoodRun
<1>4. /\ card \in [document : Documents, page : 1 .. PageCount, bytes : 0 .. MaxVersion]
      /\ card.document = j.document /\ card.bytes = j.bytes
  BY <1>3 DEF CardOf, Jobs, IntakeTypeOK, Documents
<1> HIDE DEF card
<1>5. CardTypeOK'
  BY <1>1, <1>2, <1>3, <1>4 DEF CardInv, CardTypeOK
<1>6. \A d \in Terminals : GoodRun(job'[d], documents')
  BY <1>1 DEF CardInv, CardTypeOK
<1>7. CardsMatchReceipt'
  BY <1>2, <1>4 DEF CardInv, CardsMatchReceipt
<1> QED
  BY <1>5, <1>6, <1>7 DEF CardInv

(* A diagram run that goes on with its pages.                              *)
LEMMA NextPageGood ==
  ASSUME NEW s \in Jobs, NEW held, s.document \in held, s.bytes = s.document.bytes,
         s.stored \cap s.uploads = {}, s.stored \cap (s.pages \ {s.page}) = {},
         s.page \in s.pages, s.calls + Cardinality(s.pages) <= Cardinality(DiagramPages) + 1
  PROVE  GoodRun(PageFails(s), held)
<1> DEFINE n == [s EXCEPT !.at = "page", !.pages = @ \ {s.page}]
<1>1. n \in Jobs
  BY DEF Jobs, Places
<1>2. /\ n.at = "page" /\ n.document = s.document /\ n.bytes = s.bytes
      /\ n.uploads = s.uploads /\ n.stored = s.stored /\ n.calls = s.calls
      /\ n.pages = s.pages \ {s.page}
  BY DEF Jobs
<1> HIDE DEF n
<1>3. Staged(n, held) /\ Tidy(n)
  BY <1>2 DEF Staged, Tidy
<1>4. Cardinality(n.pages) = Cardinality(s.pages) - 1 /\ Cardinality(n.pages) \in Nat
  <2>1. s.pages \in SUBSET (1 .. PageCount) /\ n.pages \in SUBSET (1 .. PageCount)
    BY <1>1 DEF Jobs
  <2> QED
    BY <1>2, <2>1, PagesFinite, FS_RemoveElement
<1>5. s.calls \in Nat /\ Cardinality(s.pages) \in Nat
  BY PagesFinite DEF Jobs
<1>6. n.calls + Cardinality(n.pages) <= Cardinality(DiagramPages)
  BY <1>2, <1>4, <1>5, Budget
<1>7. n.calls <= Cardinality(DiagramPages)
  BY <1>2, <1>4, <1>5, <1>6, Budget
<1>8. Thrifty(n)
  BY <1>2, <1>6, <1>7 DEF Thrifty
<1> QED
  BY <1>1, <1>3, <1>8 DEF GoodRun, PageFails, n

(* What a diagram run relies on while it treats its pages.                 *)
LEMMA PagesLeft ==
  ASSUME NEW s, NEW held, GoodRun(s, held),
         s.at \in {"page", "vision", "delete", "store"}
  PROVE  /\ s \in Jobs /\ s.document \in held /\ s.bytes = s.document.bytes
         /\ s.stored \cap s.uploads = {} /\ s.stored \cap s.pages = {}
         /\ s.at # "page" => s.page \in s.pages
         /\ s.pages \in SUBSET (1 .. PageCount) /\ Cardinality(s.pages) \in Nat
         /\ s.calls \in Nat
         /\ s.at \in {"page", "vision"} => s.calls + Cardinality(s.pages) <= Cardinality(DiagramPages)
         /\ s.calls + Cardinality(s.pages) <= Cardinality(DiagramPages) + 1
<1>1. s \in Jobs /\ s.pages \in SUBSET (1 .. PageCount) /\ s.calls \in Nat
  BY DEF GoodRun, Jobs
<1>2. Cardinality(s.pages) \in Nat
  BY <1>1, PagesFinite
<1>3. s.document \in held /\ s.bytes = s.document.bytes
  BY DEF GoodRun, Staged, Running
<1>4. /\ s.stored \cap s.uploads = {} /\ s.stored \cap s.pages = {}
      /\ s.at # "page" => s.page \in s.pages
  BY DEF GoodRun, Tidy
<1>5. /\ s.at \in {"page", "vision"} => s.calls + Cardinality(s.pages) <= Cardinality(DiagramPages)
      /\ s.at \in {"delete", "store"} => s.calls + Cardinality(s.pages) <= Cardinality(DiagramPages) + 1
  BY DEF GoodRun, Thrifty
<1>6. s.calls + Cardinality(s.pages) <= Cardinality(DiagramPages) + 1
  BY <1>1, <1>2, <1>5, Budget
<1> QED
  BY <1>1, <1>2, <1>3, <1>4, <1>5, <1>6

LEMMA UploadPageGood ==
  ASSUME CardInv, NEW c \in Terminals, UploadPage(c), documents' = documents
  PROVE  CardInv'
<1> DEFINE j == job[c]
           p == Min(j.pages)
           s == [j EXCEPT !.page = p, !.answer = "none"]
           uploaded == [s EXCEPT !.uploads = @ \cup {s.page}]
           n == [uploaded EXCEPT !.at = "vision"]
<1>1. j.at = "page" /\ j.pages # {} /\ GoodRun(j, documents)
  BY RunIsGood DEF UploadPage, GoodRun, Staged
<1>2. /\ j \in Jobs /\ j.document \in documents /\ j.bytes = j.document.bytes
      /\ j.stored \cap j.uploads = {} /\ j.stored \cap j.pages = {}
      /\ j.pages \in SUBSET (1 .. PageCount) /\ Cardinality(j.pages) \in Nat
      /\ j.calls \in Nat
      /\ j.calls + Cardinality(j.pages) <= Cardinality(DiagramPages)
  BY <1>1, PagesLeft
<1>3. p \in j.pages /\ p \in 1 .. PageCount
  <2>1. j.pages \in SUBSET Nat
    BY <1>2
  <2> QED
    BY <1>1, <1>2, <2>1, MinIsMember
<1> HIDE DEF p
<1>4. /\ s \in Jobs /\ s.page = p /\ s.at = "page" /\ s.document = j.document
      /\ s.bytes = j.bytes /\ s.pages = j.pages /\ s.uploads = j.uploads /\ s.stored = j.stored
      /\ s.calls = j.calls
  <2>1. p \in 0 .. PageCount /\ "none" \in {"none", "good", "bad", "limited"}
    BY <1>3
  <2>2. s \in Jobs
    BY <1>2, <2>1 DEF Jobs
  <2> QED
    BY <1>1, <1>2, <2>2 DEF Jobs
<1>5. Goes(c, n) \/ Goes(c, PageFails(s)) \/ Goes(c, PageFails(uploaded))
  BY DEF UploadPage, p
<1> HIDE DEF s
<1>6. /\ uploaded \in Jobs /\ uploaded.page = p /\ uploaded.at = "page"
      /\ uploaded.document = j.document /\ uploaded.bytes = j.bytes /\ uploaded.pages = j.pages
      /\ uploaded.uploads = j.uploads \cup {p} /\ uploaded.stored = j.stored
      /\ uploaded.calls = j.calls
  <2>1. uploaded \in Jobs
    BY <1>3, <1>4 DEF Jobs
  <2> QED
    BY <1>4, <2>1 DEF Jobs
<1> HIDE DEF uploaded
<1>7. j.stored \cap (j.uploads \cup {p}) = {}
  BY <1>2, <1>3
<1>8. j.calls + Cardinality(j.pages) <= Cardinality(DiagramPages) + 1
  BY <1>2, Budget
<1>9. GoodRun(PageFails(s), documents)
  BY <1>1, <1>2, <1>3, <1>4, <1>8, NextPageGood
<1>10. GoodRun(PageFails(uploaded), documents)
  BY <1>1, <1>2, <1>3, <1>6, <1>7, <1>8, NextPageGood
<1>11. GoodRun(n, documents)
  <2>1. "vision" \in Places
    BY DEF Places
  <2>2. /\ n \in Jobs /\ n.at = "vision" /\ n.document = uploaded.document
        /\ n.bytes = uploaded.bytes /\ n.pages = uploaded.pages /\ n.page = uploaded.page
    BY <1>6, <2>1, OnlyMoved
  <2>3. n.uploads = uploaded.uploads /\ n.stored = uploaded.stored /\ n.calls = uploaded.calls
    BY <1>6, <2>1, OnlyMoved
  <2> HIDE DEF n
  <2>5. Staged(n, documents) /\ Tidy(n)
    BY <1>2, <1>3, <1>6, <1>7, <2>2, <2>3 DEF Staged, Tidy
  <2>6. Thrifty(n)
    <3>1. n.calls + Cardinality(n.pages) <= Cardinality(DiagramPages)
      BY <1>2, <1>6, <2>2, <2>3
    <3>2. n.calls <= Cardinality(DiagramPages)
      BY <1>2, <1>6, <2>3, Budget
    <3> QED
      BY <2>2, <3>1, <3>2 DEF Thrifty
  <2> QED
    BY <2>2, <2>5, <2>6 DEF GoodRun
<1> QED
  BY <1>5, <1>9, <1>10, <1>11, GoesGood

LEMMA AskVisionGood ==
  ASSUME CardInv, NEW c \in Terminals, AskVision(c), documents' = documents
  PROVE  CardInv'
<1> DEFINE j == job[c]
<1>1. j.at = "vision" /\ GoodRun(j, documents)
  BY RunIsGood DEF AskVision, GoodRun, Staged
<1>2. PICK answer \in {"good", "bad", "limited"} :
        Goes(c, [j EXCEPT !.calls = @ + 1, !.answer = answer, !.at = "delete"])
  BY DEF AskVision
<1> DEFINE n == [j EXCEPT !.calls = @ + 1, !.answer = answer, !.at = "delete"]
<1>3. /\ j \in Jobs /\ j.document \in documents /\ j.bytes = j.document.bytes
      /\ j.stored \cap j.uploads = {} /\ j.stored \cap j.pages = {} /\ j.page \in j.pages
      /\ j.pages \in SUBSET (1 .. PageCount) /\ Cardinality(j.pages) \in Nat
      /\ j.calls \in Nat
      /\ j.calls + Cardinality(j.pages) <= Cardinality(DiagramPages)
  BY <1>1, PagesLeft
<1>4. n \in Jobs
  <2>1. j.calls + 1 \in Nat /\ "delete" \in Places /\ answer \in {"none", "good", "bad", "limited"}
    BY <1>2, <1>3 DEF Places
  <2> QED
    BY <1>3, <2>1 DEF Jobs
<1>5. /\ n.at = "delete" /\ n.document = j.document /\ n.bytes = j.bytes
      /\ n.pages = j.pages /\ n.page = j.page /\ n.uploads = j.uploads /\ n.stored = j.stored
      /\ n.calls = j.calls + 1
  BY <1>1, <1>3 DEF Jobs
<1> HIDE DEF n
<1>6. Cardinality(j.pages) >= 1
  BY <1>3, PagesFinite, FS_EmptySet
<1>7. /\ n.calls + Cardinality(n.pages) <= Cardinality(DiagramPages) + 1
      /\ n.calls <= Cardinality(DiagramPages)
  BY <1>3, <1>5, <1>6, Budget
<1>8. Staged(n, documents) /\ Tidy(n)
  BY <1>3, <1>5 DEF Staged, Tidy
<1>9. Thrifty(n)
  BY <1>5, <1>7 DEF Thrifty
<1>10. GoodRun(n, documents)
  BY <1>4, <1>8, <1>9 DEF GoodRun
<1> QED
  BY <1>2, <1>10, GoesGood DEF n

LEMMA DeleteUploadGood ==
  ASSUME CardInv, NEW c \in Terminals, DeleteUpload(c), documents' = documents
  PROVE  CardInv'
<1> DEFINE s == job[c]
<1>1. s.at = "delete" /\ GoodRun(s, documents)
  BY RunIsGood DEF DeleteUpload, GoodRun, Staged
<1>2. PICK deleted \in BOOLEAN :
        LET left == IF deleted THEN [s EXCEPT !.uploads = @ \ {s.page}] ELSE s
        IN Goes(c, IF AfterDeletion(s, deleted) = "store" THEN [left EXCEPT !.at = "store"]
                   ELSE PageFails(left))
  BY DEF DeleteUpload
<1> DEFINE less == [s EXCEPT !.uploads = @ \ {s.page}]
           left == IF deleted THEN less ELSE s
           n == [left EXCEPT !.at = "store"]
<1>3. /\ s \in Jobs /\ s.document \in documents /\ s.bytes = s.document.bytes
      /\ s.stored \cap s.uploads = {} /\ s.stored \cap s.pages = {} /\ s.page \in s.pages
      /\ s.pages \in SUBSET (1 .. PageCount) /\ Cardinality(s.pages) \in Nat
      /\ s.calls \in Nat
      /\ s.calls + Cardinality(s.pages) <= Cardinality(DiagramPages) + 1
  BY <1>1, PagesLeft
<1>4. s.calls <= Cardinality(DiagramPages)
  BY <1>1 DEF GoodRun, Thrifty
<1>5. /\ less \in Jobs /\ less.page = s.page /\ less.document = s.document
      /\ less.bytes = s.bytes /\ less.pages = s.pages /\ less.stored = s.stored
      /\ less.calls = s.calls /\ less.uploads = s.uploads \ {s.page}
  <2>1. less \in Jobs
    BY <1>3 DEF Jobs
  <2> QED
    BY <1>3, <2>1 DEF Jobs
<1> HIDE DEF less
<1>6. /\ left \in Jobs /\ left.page = s.page /\ left.document = s.document
      /\ left.bytes = s.bytes /\ left.pages = s.pages /\ left.stored = s.stored
      /\ left.calls = s.calls /\ left.uploads \subseteq s.uploads
      /\ deleted => left.uploads = s.uploads \ {s.page}
  BY <1>3, <1>5
<1>7. /\ Goes(c, n) \/ Goes(c, PageFails(left))
      /\ AfterDeletion(s, deleted) # "store" => Goes(c, PageFails(left))
  BY <1>2 DEF less
<1>8. AfterDeletion(s, deleted) = "store" => deleted
  BY DEF AfterDeletion
<1> HIDE DEF left
<1>9. GoodRun(PageFails(left), documents)
  BY <1>1, <1>3, <1>6, NextPageGood
<1>10. CASE deleted
  <2>1. "store" \in Places
    BY DEF Places
  <2>2. /\ n \in Jobs /\ n.at = "store" /\ n.document = left.document
        /\ n.bytes = left.bytes /\ n.pages = left.pages /\ n.page = left.page
    BY <1>6, <2>1, OnlyMoved
  <2>3. n.uploads = left.uploads /\ n.stored = left.stored /\ n.calls = left.calls
    BY <1>6, <2>1, OnlyMoved
  <2> HIDE DEF n
  <2>4. n.uploads = s.uploads \ {s.page}
    BY <1>1, <1>6, <1>10, <2>2, <2>3
  <2>5. Staged(n, documents) /\ Tidy(n)
    BY <1>3, <1>6, <2>2, <2>3, <2>4 DEF Staged, Tidy
  <2>6. Thrifty(n)
    BY <1>3, <1>4, <1>6, <2>2, <2>3, <2>4 DEF Thrifty
  <2>7. GoodRun(n, documents)
    BY <2>2, <2>5, <2>6 DEF GoodRun
  <2> QED
    BY <1>7, <1>9, <2>7, GoesGood DEF n
<1>11. CASE ~ deleted
  BY <1>7, <1>8, <1>9, <1>11, GoesGood
<1> QED
  BY <1>10, <1>11

LEMMA StoreDiagramCardGood ==
  ASSUME IntakeTypeOK, CardInv, NEW c \in Terminals, StoreDiagramCard(c), documents' = documents
  PROVE  CardInv'
<1> DEFINE s == job[c]
           n == [s EXCEPT !.at = "page", !.pages = @ \ {s.page},
                          !.stored = @ \cup {s.page}]
<1>1. s.at = "store" /\ GoodRun(s, documents)
  BY RunIsGood DEF StoreDiagramCard
<1>2. /\ s \in Jobs /\ s.document \in documents /\ s.bytes = s.document.bytes
      /\ s.stored \cap s.uploads = {} /\ s.stored \cap s.pages = {} /\ s.page \in s.pages
      /\ s.pages \in SUBSET (1 .. PageCount) /\ Cardinality(s.pages) \in Nat
      /\ s.calls \in Nat
      /\ s.calls + Cardinality(s.pages) <= Cardinality(DiagramPages) + 1
  BY <1>1, PagesLeft
<1>3. s.calls <= Cardinality(DiagramPages) /\ s.page \notin s.uploads
  BY <1>1 DEF GoodRun, Thrifty, Tidy
<1>4. s.page \in 1 .. PageCount
  BY <1>2
<1>5. n \in Jobs
  <2> DEFINE left == s.pages \ {s.page}
             kept == s.stored \cup {s.page}
             begun == [s EXCEPT !.at = "page", !.pages = left]
  <2>1. "page" \in Places
    BY DEF Places
  <2>2. left \in SUBSET (1 .. PageCount) /\ kept \in SUBSET (1 .. PageCount)
    BY <1>2, <1>4 DEF Jobs
  <2>3. n = [begun EXCEPT !.stored = kept]
    BY <1>2 DEF Jobs
  <2> HIDE DEF left, kept, n
  <2>4. begun \in Jobs
    BY <1>2, <2>1, <2>2 DEF Jobs
  <2> HIDE DEF begun
  <2> QED
    BY <2>2, <2>3, <2>4 DEF Jobs
<1>6. /\ n.at = "page" /\ n.document = s.document /\ n.bytes = s.bytes
      /\ n.uploads = s.uploads /\ n.stored = s.stored \cup {s.page} /\ n.calls = s.calls
      /\ n.pages = s.pages \ {s.page}
  BY <1>1, <1>2 DEF Jobs
<1>7. \/ Upserts(CardOf(s, s.page)) /\ paused' = paused /\ Becoming(c, n)
      \/ Goes(c, PageFails(s))
  BY DEF StoreDiagramCard
<1> HIDE DEF n
<1>8. GoodRun(PageFails(s), documents)
  <2>1. s.stored \cap (s.pages \ {s.page}) = {}
    BY <1>2
  <2> QED
    BY <1>1, <1>2, <2>1, NextPageGood
<1>9. GoodRun(n, documents)
  <2>1. Staged(n, documents) /\ Tidy(n)
    BY <1>2, <1>3, <1>6 DEF Staged, Tidy
  <2>2. Cardinality(n.pages) = Cardinality(s.pages) - 1
    BY <1>2, <1>6, PagesFinite, FS_RemoveElement
  <2>3. n.calls + Cardinality(n.pages) <= Cardinality(DiagramPages)
    BY <1>2, <1>6, <2>2, Budget
  <2>4. Thrifty(n)
    BY <1>3, <1>6, <2>3 DEF Thrifty
  <2> QED
    BY <1>5, <2>1, <2>4 DEF GoodRun
<1>10. CASE Upserts(CardOf(s, s.page)) /\ paused' = paused /\ Becoming(c, n)
  BY <1>2, <1>4, <1>9, <1>10, StoresGood
<1>11. CASE Goes(c, PageFails(s))
  BY <1>8, <1>11, GoesGood
<1> QED
  BY <1>7, <1>10, <1>11

LEMMA AllPagesDoneGood ==
  ASSUME CardInv, NEW c \in Terminals, AllPagesDone(c), documents' = documents
  PROVE  CardInv'
<1> DEFINE s == job[c]
           n == [s EXCEPT !.at = "output"]
<1>1. s.at = "page" /\ Running(s) /\ s \in Jobs /\ GoodRun(s, documents)
  BY RunIsGood DEF AllPagesDone, Running
<1>2. Goes(c, [s EXCEPT !.at = "broken"]) \/ Goes(c, n)
  BY DEF AllPagesDone
<1>3. GoodRun([s EXCEPT !.at = "broken"], documents)
  BY <1>1, BrokenIsGood
<1>4. GoodRun(n, documents)
  <2>1. "output" \in Places
    BY DEF Places
  <2>2. /\ n \in Jobs /\ n.at = "output" /\ n.document = s.document
        /\ n.uploads = s.uploads /\ n.stored = s.stored /\ n.calls = s.calls
    BY <1>1, <2>1, OnlyMoved
  <2> HIDE DEF n
  <2>3. Staged(n, documents) /\ Tidy(n)
    BY <1>1, <2>2 DEF GoodRun, Staged, Tidy
  <2>4. Thrifty(n)
    BY <1>1, <2>2 DEF GoodRun, Thrifty
  <2> QED
    BY <2>2, <2>3, <2>4 DEF GoodRun
<1> QED
  BY <1>2, <1>3, <1>4, GoesGood

LEMMA WriteOutputGood ==
  ASSUME CardInv, NEW c \in Terminals, WriteOutput(c), documents' = documents
  PROVE  CardInv'
<1>1. job[c].at = "output" /\ Running(job[c]) /\ GoodRun(job[c], documents)
  BY RunIsGood DEF WriteOutput, Running
<1> QED
  BY <1>1, ExitedIsGood, BrokenIsGood, GoesGood DEF WriteOutput

-----------------------------------------------------------------------------
(* Every step.                                                             *)

LEMMA RunStepGood ==
  ASSUME IntakeTypeOK, CardInv, NEW c \in Terminals, RunStep(c), documents' = documents
  PROVE  CardInv'
  BY EnterLaneGood, LimitedLaneGood, BrokenLaneGood, FetchDocumentGood, UploadPageGood,
     AskVisionGood, DeleteUploadGood, StoreDiagramCardGood, AllPagesDoneGood,
     WriteOutputGood DEF RunStep

LEMMA CardStepGood ==
  ASSUME IntakeTypeOK, CardInv, CardNext, UNCHANGED intakeVars, WithinBound
  PROVE  CardInv'
<1>1. documents' = documents
  BY DEF intakeVars
<1>2. CASE PauseEnds
  BY <1>1, <1>2 DEF PauseEnds, CardInv, CardTypeOK, CardsMatchReceipt
<1>3. ASSUME NEW card \in cards, Decide(card) PROVE CardInv'
  <2>1. Key(card) \in Documents \X (1 .. PageCount)
    BY DEF CardInv, CardTypeOK, Key
  <2>2. /\ decided' = decided \cup {Key(card)}
        /\ paused' = paused /\ cards' = cards /\ job' = job /\ runs' = runs
    BY <1>3 DEF Decide
  <2> QED
    BY <1>1, <2>1, <2>2 DEF CardInv, CardTypeOK, CardsMatchReceipt
<1>4. ASSUME NEW c \in Terminals, RunStep(c) PROVE CardInv'
  BY <1>1, <1>4, RunStepGood
<1>5. ASSUME NEW c \in Terminals, RunDies(c) PROVE CardInv'
  BY <1>1, <1>5, NoJobIsGood, GoesGood DEF RunDies
<1>6. ASSUME NEW c \in Terminals, NEW kind \in {"document", "diagrams"}, NEW d \in documents,
             StartRun(c, kind, d)
      PROVE  CardInv'
  BY <1>6, StartRunGood
<1> QED
  BY <1>2, <1>3, <1>4, <1>5, <1>6 DEF CardNext

(* The intake never takes a stored document away.                          *)
LEMMA DocumentsGrow ==
  ASSUME IntakeNext
  PROVE  documents \subseteq documents'
<1>1. ASSUME NEW t \in Terminals, ScriptStep(t) PROVE documents \subseteq documents'
  BY <1>1 DEF ScriptStep, SearchProvider, Conclude, LookupArxivIdentifier, LookupAbstractPage,
              LookupDoi, PersistSources, CheckLicence, FetchPdf, ReadRange, PersistReceipt,
              PersistFulltext, Becomes, storage
<1>2. ASSUME NEW t \in Terminals, ScriptFails(t) PROVE documents \subseteq documents'
  BY <1>2 DEF ScriptFails, Becomes, storage
<1>3. ASSUME NEW t \in Terminals,
             \/ StartSearch(t)
             \/ \E id \in Ids : \/ StartImport(t, id) \/ StartCycle(t, id)
                                \/ StartVerify(t, id) \/ StartHtml(t, id)
      PROVE  documents \subseteq documents'
  BY <1>3 DEF StartSearch, StartImport, StartCycle, StartVerify, StartHtml, Started, storage
<1>4. ASSUME NEW w \in Preprints, PublishVersion(w) PROVE documents \subseteq documents'
  BY <1>4 DEF PublishVersion, storage
<1>5. CASE BuildQueue
  BY <1>5 DEF BuildQueue, storage
<1> QED
  BY <1>1, <1>2, <1>3, <1>4, <1>5 DEF IntakeNext

LEMMA IntakeKeepsCards ==
  ASSUME CardInv, IntakeNext, UNCHANGED cardVars
  PROVE  CardInv'
<1>1. documents \subseteq documents'
  BY DocumentsGrow
<1>2. paused' = paused /\ cards' = cards /\ decided' = decided /\ job' = job /\ runs' = runs
  BY DEF cardVars
<1>3. \A c \in Terminals : GoodRun(job[c], documents')
  BY <1>1, GoodRunWithMore DEF CardInv
<1> QED
  BY <1>1, <1>2, <1>3 DEF CardInv, CardTypeOK, CardsMatchReceipt

LEMMA InvInit == Init => Inv
<1> SUFFICES ASSUME Init PROVE Inv
  OBVIOUS
<1>1. IntakeInv
  BY IntakeInvInit DEF Init
<1>2. CardTypeOK
  <2>1. job \in [Terminals -> Jobs]
    BY NoJobIsJob DEF Init, CardInit
  <2>2. paused \in BOOLEAN /\ cards = {} /\ decided = {} /\ runs = 0
    BY DEF Init, CardInit
  <2>3. runs \in 0 .. MaxScripts
    BY <2>2, Bounds
  <2> QED
    BY <2>1, <2>2, <2>3 DEF CardTypeOK
<1>3. CardsMatchReceipt /\ \A c \in Terminals : GoodRun(job[c], documents)
  BY NoJobIsGood DEF Init, CardInit, CardsMatchReceipt
<1> QED
  BY <1>1, <1>2, <1>3 DEF Inv, CardInv

LEMMA NextKeepsIntakeSteps == [Next]_vars => [IntakeNext]_intakeVars
  BY DEF Next, vars

LEMMA InvStep == Inv /\ [Next]_vars => Inv'
<1> SUFFICES ASSUME Inv, [Next]_vars PROVE Inv'
  OBVIOUS
<1>1. IntakeInv'
  BY NextKeepsIntakeSteps, IntakeInvStep DEF Inv
<1>2. CASE IntakeNext /\ UNCHANGED cardVars
  BY <1>1, <1>2, IntakeKeepsCards DEF Inv
<1>3. CASE CardNext /\ UNCHANGED intakeVars /\ WithinBound
  BY <1>1, <1>3, CardStepGood DEF Inv, IntakeInv
<1>4. CASE UNCHANGED vars
  <2>1. UNCHANGED cardVars /\ documents' = documents
    BY <1>4 DEF vars, intakeVars
  <2> QED
    BY <1>1, <2>1 DEF Inv, CardInv, CardTypeOK, CardsMatchReceipt, cardVars
<1> QED
  BY <1>2, <1>3, <1>4 DEF Next

(* What a run relies on at each stage holds beside every intake script.    *)
THEOREM CardInvariant == Spec => []Inv
  BY InvInit, InvStep, PTL DEF Spec

LEMMA InvBoundsCalls == Inv => CallsBounded
  BY DEF Inv, CardInv, GoodRun, Thrifty, CallsBounded

(* Whatever is lost, refused or limited in either lane, a run asks at most *)
(* once about each page, for every number of pages.                        *)
THEOREM CallsAreBounded == Spec => []CallsBounded
  BY CardInvariant, InvBoundsCalls, PTL

LEMMA InvPauses == Inv => PausedStoredNothing
  BY DEF Inv, CardInv, GoodRun, Tidy, PausedStoredNothing

(* A run that ends in the pause has stored nothing and can be repeated.    *)
THEOREM PausesAreRepeatable == Spec => []PausedStoredNothing
  BY CardInvariant, InvPauses, PTL

LEMMA InvDeletes == Inv => UploadsOfResultsDeleted
  BY DEF Inv, CardInv, GoodRun, Tidy, UploadsOfResultsDeleted

(* No card is stored of a page whose image the provider still has.         *)
THEOREM UploadsAreDeleted == Spec => []UploadsOfResultsDeleted
  BY CardInvariant, InvDeletes, PTL

LEMMA InvMatches == Inv => CardsMatchReceipt
  BY DEF Inv, CardInv

(* A card is about the bytes of its document's receipt.                    *)
THEOREM CardsRestOnReceipts == Spec => []CardsMatchReceipt
  BY CardInvariant, InvMatches, PTL

(* The composed system is an intake: its theorems carry over.              *)
THEOREM ImplementsIntake == Spec => IntakeInit /\ [][IntakeNext]_intakeVars
<1>1. Init => IntakeInit
  BY DEF Init
<1> QED
  BY <1>1, NextKeepsIntakeSteps, PTL DEF Spec

(* Range assembly is as sound beside the card scripts.                     *)
THEOREM CardsRestOnWholeFiles == Spec => []AssembledIsWhole
<1>1. Inv => AssembledIsWhole
  BY IntakeInvAssembles DEF Inv
<1> QED
  BY <1>1, CardInvariant, PTL

(* What the cards are about was openly licensed when a cycle stored it.    *)
THEOREM CardsRestOnLicences == Spec => []DocumentIsLicensed
<1>1. Inv => DocumentIsLicensed
  BY IntakeInvLicenses DEF Inv
<1> QED
  BY <1>1, CardInvariant, PTL
=============================================================================
