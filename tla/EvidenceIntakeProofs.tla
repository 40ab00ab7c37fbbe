------------------------ MODULE EvidenceIntakeProofs ------------------------
(***************************************************************************)
(* Proofs about the intake of evidence, for any number of papers, versions,*)
(* licences and terminals and every size limit of a PDF.  What has to hold *)
(* of stored rows is carried by a script from stage to stage, so that the  *)
(* invariant says of a script at each stage what its next writes rely on.  *)
(***************************************************************************)
EXTENDS EvidenceIntake, SequenceTheorems, TLAPS

(* What a script holds at its stage, given the stored licences.            *)
Routed(s) ==
  /\ s.kind \notin {"none", "search"} => s.id \in Ids
  /\ s.at \in {"licence", "receipt"} => s.kind \in {"cycle", "html"}
  /\ s.at = "pdf" => s.kind \in Routes /\ s.id \in PreprintIds
  /\ s.at = "ranges" => s.kind = "cycle" /\ s.id \in ArticleIds
  /\ s.at \in {"pdf", "ranges"} /\ s.kind = "cycle" => s.page \in Versions
  /\ s.at = "receipt" => s.page \in Versions /\ (s.kind = "cycle" => s.bytes \in Versions)
  /\ s.at = "document" => s.kind \in Routes /\ s.bytes \in Versions

WholeFile(f) == f.total \in 1 .. MaxBytes /\ f.payload = FileBytes(f.total)

Assembled(s) ==
  s.kind = "cycle" /\ s.id.work \in Articles =>
    /\ s.at = "licence" => s.fetch = NoBytes
    /\ s.at = "ranges" => IsPrefix(s.fetch)
    /\ s.at \in {"receipt", "document"} => WholeFile(s.fetch)

Cleared(s, held) ==
  s.kind = "cycle" /\ s.id.version # 0 =>
    /\ s.at \in {"pdf", "ranges", "receipt", "document"} =>
         s.page = s.id.version /\ <<s.id.work, s.page>> \in Licensed
    /\ s.at \in {"receipt", "document"} => s.bytes = s.page
    /\ s.at = "document" => [source |-> s.id, page |-> s.page] \in held

GoodScript(s, held) ==
  s \in Scripts \cup {Idle} /\ Routed(s) /\ Assembled(s) /\ Cleared(s, held)

IntakeInv ==
  /\ IntakeTypeOK
  /\ \A t \in Terminals : GoodScript(script[t], licences)
  /\ DocumentIsLicensed

-----------------------------------------------------------------------------
(* Range assembly.                                                         *)

LEMMA NoBytesIsPrefix == NoBytes \in Fetches /\ IsPrefix(NoBytes)
<1>1. NoBytes.payload = <<>> /\ NoBytes.total = 0
  BY DEF NoBytes
<1>2. FileBytes(0) = <<>>
  BY DEF FileBytes
<1>3. <<>> \in Seq(0 .. MaxBytes)
  OBVIOUS
<1> QED
  BY <1>1, <1>2, <1>3, MaxBytesAssumption DEF NoBytes, Fetches, IsPrefix, Expected

LEMMA FunctionIsSeq ==
  ASSUME NEW S, NEW n \in Nat, NEW p \in [1 .. n -> S]
  PROVE  p \in Seq(S) /\ Len(p) = n
  OBVIOUS

(* The beginning of a file and the accepted part after it are a longer     *)
(* beginning of the file.                                                  *)
LEMMA ExtendedIsPrefix ==
  ASSUME NEW f \in Fetches, NEW a \in Answers, IsPrefix(f), Accepts(f, a)
  PROVE  /\ Extended(f, a) \in Fetches /\ IsPrefix(Extended(f, a))
         /\ Extended(f, a).total \in 1 .. MaxBytes
<1> DEFINE n == Len(f.payload)
           part == [i \in 1 .. a.sent |-> a.first + i - 1]
           bytes == 0 .. MaxBytes
<1>1. f.payload \in Seq(bytes) /\ n \in Nat /\ f.total \in 0 .. MaxBytes
  BY DEF Fetches
<1>2. /\ a.first = n /\ a.first \in Nat /\ a.last \in Nat /\ a.sent \in Nat
      /\ a.sent = a.last - a.first + 1 /\ a.last < a.total /\ a.total \in 1 .. MaxBytes
      /\ a.first <= a.last
  BY DEF Accepts, Answers, Expected
<1>3. MaxBytes \in Nat
  BY MaxBytesAssumption
<1> HIDE DEF part, bytes
<1>4. part \in Seq(bytes) /\ Len(part) = a.sent /\ \A i \in 1 .. a.sent : part[i] = n + i - 1
  <2>1. ASSUME NEW i \in 1 .. a.sent PROVE a.first + i - 1 \in bytes
    <3>1. i \in Nat /\ i >= 1 /\ i <= a.last - a.first + 1
      BY <1>2
    <3>2. a.first + i - 1 \in Nat /\ a.first + i - 1 <= a.last
      BY <1>2, <3>1
    <3>3. a.last <= MaxBytes
      BY <1>2, <1>3
    <3> QED
      BY <1>2, <1>3, <3>2, <3>3 DEF bytes
  <2>2. part \in [1 .. a.sent -> bytes]
    BY <2>1, Zenon DEF part
  <2>3. part \in Seq(bytes) /\ Len(part) = a.sent
    BY <2>2, <1>2, FunctionIsSeq
  <2> QED
    BY <2>3, <1>2 DEF part
<1>5. /\ f.payload \o part \in Seq(bytes)
      /\ Len(f.payload \o part) = n + a.sent
      /\ \A i \in 1 .. n + a.sent :
           (f.payload \o part)[i] = IF i <= n THEN f.payload[i] ELSE part[i - n]
  <2>1. f.payload \in Seq(bytes) /\ part \in Seq(bytes)
    BY <1>1, <1>4 DEF bytes
  <2>2. /\ f.payload \o part \in Seq(bytes)
        /\ Len(f.payload \o part) = Len(f.payload) + Len(part)
        /\ \A i \in 1 .. Len(f.payload) + Len(part) :
             (f.payload \o part)[i] =
               IF i <= Len(f.payload) THEN f.payload[i] ELSE part[i - Len(f.payload)]
    BY <2>1, ConcatProperties
  <2> QED
    BY <2>2, <1>4
<1>6. \A i \in 1 .. n : f.payload[i] = i - 1
  BY <1>1 DEF IsPrefix, FileBytes, Expected
<1>7. \A i \in 1 .. n + a.sent : (f.payload \o part)[i] = i - 1
  <2> SUFFICES ASSUME NEW i \in 1 .. n + a.sent PROVE (f.payload \o part)[i] = i - 1
    OBVIOUS
  <2>1. CASE i <= n
    BY <2>1, <1>1, <1>2, <1>5, <1>6
  <2>2. CASE ~ (i <= n)
    <3>1. i - n \in 1 .. a.sent
      BY <2>2, <1>1, <1>2
    <3>2. part[i - n] = n + (i - n) - 1
      BY <3>1, <1>4
    <3> QED
      BY <2>2, <3>2, <1>1, <1>5
  <2> QED BY <2>1, <2>2
<1>8. f.payload \o part = FileBytes(n + a.sent)
  <2>1. f.payload \o part = [i \in 1 .. Len(f.payload \o part) |-> (f.payload \o part)[i]]
    BY <1>5
  <2> QED BY <2>1, <1>5, <1>7 DEF FileBytes
<1>9. Extended(f, a) = [payload |-> f.payload \o part, total |-> a.total]
  BY DEF Extended, part
<1> DEFINE g == Extended(f, a)
<1>10. g.payload = f.payload \o part /\ g.total = a.total
  BY <1>9
<1>11. g \in Fetches
  <2>1. a.total \in 0 .. MaxBytes /\ f.payload \o part \in Seq(0 .. MaxBytes)
    BY <1>2, <1>3, <1>5 DEF bytes
  <2> QED
    BY <1>9, <2>1 DEF Fetches
<1> HIDE DEF n, g
<1>12. Len(g.payload) = n + a.sent /\ g.payload = FileBytes(n + a.sent)
  BY <1>5, <1>8, <1>10
<1>13. n + a.sent = a.last + 1 /\ n + a.sent <= a.total
  BY <1>1, <1>2
<1>14. IsPrefix(g)
  BY <1>2, <1>10, <1>12, <1>13 DEF IsPrefix, Expected
<1> QED
  BY <1>2, <1>10, <1>11, <1>14 DEF g

(* A beginning that has reached the declared size is the file.             *)
LEMMA CompleteIsWhole ==
  ASSUME NEW f \in Fetches, IsPrefix(f), Complete(f)
  PROVE  WholeFile(f)
<1>1. f.total \in 0 .. MaxBytes /\ Len(f.payload) \in Nat
  BY MaxBytesAssumption DEF Fetches
<1> QED
  BY <1>1, MaxBytesAssumption DEF IsPrefix, Complete, Expected, WholeFile

-----------------------------------------------------------------------------
(* What a script becomes.                                                  *)

LEMMA IdleIsGood == \A held : GoodScript(Idle, held)
  BY DEF GoodScript, Idle, Routed, Assembled, Cleared, NoId, Routes

(* A larger set of stored licences takes nothing away.                     *)
LEMMA GoodWithMore ==
  ASSUME NEW s, NEW held, NEW more, held \subseteq more, GoodScript(s, held)
  PROVE  GoodScript(s, more)
  BY DEF GoodScript, Cleared

LEMMA ResolvedIsVersion ==
  ASSUME IntakeTypeOK, NEW id \in Ids
  PROVE  /\ Resolved(id) \in 0 .. MaxVersion
         /\ id.version # 0 => Resolved(id) \in {0, id.version}
  BY IntakeAssumption DEF IntakeTypeOK, Resolved, Ids, PreprintIds, ArticleIds, Versions

(* Terminal t goes on as a good script.                                    *)
LEMMA BecomesGood ==
  ASSUME IntakeInv, NEW t \in Terminals, NEW s, GoodScript(s, licences), Becomes(t, s)
  PROVE  IntakeInv'
<1>1. /\ latest' = latest /\ sources' = sources /\ licences' = licences
      /\ documents' = documents /\ queue' = queue /\ started' = started
      /\ script' = [script EXCEPT ![t] = s]
  BY DEF Becomes, storage
<1>2. s \in Scripts \cup {Idle}
  BY DEF GoodScript
<1>3. IntakeTypeOK'
  BY <1>1, <1>2 DEF IntakeInv, IntakeTypeOK
<1>4. \A u \in Terminals : GoodScript(script'[u], licences')
  BY <1>1 DEF IntakeInv, IntakeTypeOK
<1>5. DocumentIsLicensed'
  BY <1>1 DEF IntakeInv, DocumentIsLicensed
<1> QED
  BY <1>3, <1>4, <1>5 DEF IntakeInv

LEMMA ScriptIsRecord ==
  ASSUME IntakeInv, NEW t \in Terminals, script[t].at # "idle"
  PROVE  script[t] \in Scripts /\ GoodScript(script[t], licences)
  BY DEF IntakeInv, GoodScript, Idle

LEMMA StartedGood ==
  ASSUME IntakeInv, NEW t \in Terminals, NEW stage \in Stages, NEW kind \in Kinds,
         NEW id \in Ids \cup {NoId}, Started(t, stage, kind, id),
         stage \notin {"ranges", "receipt", "document"},
         kind # "search" => id \in Ids,
         stage = "licence" => kind \in {"cycle", "html"},
         stage = "pdf" => kind = "verify" /\ id \in PreprintIds
  PROVE  IntakeInv'
<1> DEFINE s == [Idle EXCEPT !.at = stage, !.kind = kind, !.id = id]
<1>1. s.at = stage /\ s.kind = kind /\ s.id = id /\ s.fetch = NoBytes
  BY DEF Idle
<1>2. s \in Scripts
  <2>1. 0 \in 0 .. MaxVersion /\ NoBytes \in Fetches
    BY NoBytesIsPrefix, IntakeAssumption
  <2>2. Idle \in [at : Stages \cup {"idle"}, kind : Kinds \cup {"none"}, id : Ids \cup {NoId},
                  asked : SUBSET Providers, found : SUBSET (Providers \X Ids),
                  sound : BOOLEAN, page : 0 .. MaxVersion, bytes : 0 .. MaxVersion,
                  fetch : Fetches]
    BY <2>1 DEF Idle
  <2> QED
    BY <2>2 DEF Scripts
<1>3. GoodScript(s, licences)
  BY <1>1, <1>2 DEF GoodScript, Routed, Assembled, Cleared, Routes
<1>4. /\ latest' = latest /\ sources' = sources /\ licences' = licences
      /\ documents' = documents /\ queue' = queue
      /\ script' = [script EXCEPT ![t] = s]
      /\ started' \in 0 .. MaxScripts
  BY IntakeAssumption DEF Started, storage, IntakeInv, IntakeTypeOK
<1> HIDE DEF s
<1>5. IntakeTypeOK'
  BY <1>2, <1>4 DEF IntakeInv, IntakeTypeOK
<1>6. \A u \in Terminals : GoodScript(script'[u], licences')
  BY <1>3, <1>4 DEF IntakeInv, IntakeTypeOK
<1>7. DocumentIsLicensed'
  BY <1>4 DEF IntakeInv, DocumentIsLicensed
<1> QED
  BY <1>5, <1>6, <1>7 DEF IntakeInv

-----------------------------------------------------------------------------
(* The stages of discovery and import.                                     *)

LEMMA FoundAreIds ==
  ASSUME IntakeInv, NEW p \in Providers
  PROVE  FoundAt(p) \subseteq Ids
  BY DEF FoundAt, IntakeInv, IntakeTypeOK, Ids, PreprintIds, ArticleIds, Versions, Providers

LEMMA SearchGood ==
  ASSUME IntakeInv, NEW t \in Terminals, SearchProvider(t)
  PROVE  IntakeInv'
<1> DEFINE s == script[t]
           p == NextProvider(s)
           next(items, sound) ==
             [s EXCEPT !.asked = @ \cup {p}, !.found = @ \cup {<<p, i>> : i \in items},
                       !.sound = @ /\ sound,
                       !.at = IF p = "crossref" THEN "conclude" ELSE "search"]
<1>1. PICK items \in SUBSET FoundAt(p), sound \in BOOLEAN : Becomes(t, next(items, sound))
  BY DEF SearchProvider
<1>2. s.at = "search" /\ s \in Scripts /\ GoodScript(s, licences)
  BY ScriptIsRecord DEF SearchProvider
<1>3. p \in Providers
  BY DEF NextProvider, Providers
<1>4. {<<p, i>> : i \in items} \in SUBSET (Providers \X Ids)
  BY <1>3, FoundAreIds
<1>5. next(items, sound) \in Scripts
  BY <1>2, <1>3, <1>4 DEF Scripts, Stages
<1>6. /\ next(items, sound).at \in {"search", "conclude"}
      /\ next(items, sound).kind = s.kind /\ next(items, sound).id = s.id
  BY <1>2 DEF Scripts
<1> HIDE DEF next
<1>7. GoodScript(next(items, sound), licences)
  BY <1>2, <1>5, <1>6 DEF GoodScript, Routed, Assembled, Cleared
<1> QED
  BY <1>1, <1>7, BecomesGood

(* A script that moves to a stage without obligations stays good.          *)
LEMMA MovedGood ==
  ASSUME IntakeInv, NEW t \in Terminals, script[t].at # "idle",
         NEW stage \in {"persist", "fallback", "idle"}
  PROVE  GoodScript(Moved(script[t], stage), licences)
<1>1. script[t] \in Scripts /\ GoodScript(script[t], licences)
  BY ScriptIsRecord
<1>2. CASE stage = "idle"
  BY <1>2, IdleIsGood DEF Moved
<1>3. CASE stage # "idle"
  <2> DEFINE n == [script[t] EXCEPT !.at = stage]
  <2>1. n \in Scripts /\ n.at = stage /\ n.kind = script[t].kind /\ n.id = script[t].id
    BY <1>1, <1>3 DEF Scripts, Stages
  <2> HIDE DEF n
  <2>2. GoodScript(n, licences)
    BY <1>1, <1>3, <2>1 DEF GoodScript, Routed, Assembled, Cleared
  <2> QED
    BY <1>3, <2>2 DEF Moved, n
<1> QED
  BY <1>2, <1>3

LEMMA DiscoveryGood ==
  ASSUME IntakeInv, NEW t \in Terminals,
         Conclude(t) \/ LookupArxivIdentifier(t) \/ LookupAbstractPage(t) \/ LookupDoi(t)
  PROVE  IntakeInv'
<1>1. script[t].at # "idle"
  BY DEF Conclude, LookupArxivIdentifier, LookupAbstractPage, LookupDoi
<1>2. \E stage \in {"persist", "fallback", "idle"} : Becomes(t, Moved(script[t], stage))
  BY DEF Conclude, LookupArxivIdentifier, LookupAbstractPage, LookupDoi
<1> QED
  BY <1>1, <1>2, MovedGood, BecomesGood

LEMMA PersistSourcesGood ==
  ASSUME IntakeInv, NEW t \in Terminals, PersistSources(t)
  PROVE  IntakeInv'
<1> DEFINE s == script[t]
<1>1. s.at = "persist" /\ s \in Scripts /\ GoodScript(s, licences)
  BY ScriptIsRecord DEF PersistSources
<1>2. {f[2] : f \in s.found} \subseteq Ids
  BY <1>1 DEF Scripts
<1>3. s.kind # "search" => s.id \in Ids
  BY <1>1 DEF GoodScript, Routed, Scripts, Kinds
<1>4. sources' \subseteq Ids
  BY <1>2, <1>3 DEF PersistSources, IntakeInv, IntakeTypeOK
<1>5. /\ latest' = latest /\ licences' = licences /\ documents' = documents
      /\ queue' = queue /\ started' = started /\ script' = [script EXCEPT ![t] = Idle]
  BY DEF PersistSources
<1>6. IntakeTypeOK'
  BY <1>4, <1>5 DEF IntakeInv, IntakeTypeOK
<1>7. \A u \in Terminals : GoodScript(script'[u], licences')
  BY <1>5, IdleIsGood DEF IntakeInv, IntakeTypeOK
<1> QED
  BY <1>5, <1>6, <1>7 DEF IntakeInv, DocumentIsLicensed

-----------------------------------------------------------------------------
(* The stages of licences and documents.                                   *)

LEMMA CheckLicenceGood ==
  ASSUME IntakeInv, NEW t \in Terminals, CheckLicence(t)
  PROVE  IntakeInv'
<1> DEFINE s == script[t]
           page == Resolved(s.id)
<1>1. s.at = "licence" /\ s \in Scripts /\ GoodScript(s, licences)
  BY ScriptIsRecord DEF CheckLicence
<1>2. s.kind \in {"cycle", "html"} /\ s.id \in Ids
  BY <1>1 DEF GoodScript, Routed
<1>3. page \in 0 .. MaxVersion /\ (s.id.version # 0 => page \in {0, s.id.version})
  BY <1>2, ResolvedIsVersion DEF IntakeInv
<1>4. CASE page = 0 \/ <<s.id.work, page>> \notin Licensed
  BY <1>4, IdleIsGood, BecomesGood DEF CheckLicence
<1>5. CASE page # 0 /\ <<s.id.work, page>> \in Licensed
  <2> DEFINE r == [s EXCEPT !.page = page]
             stage == Following(s)
  <2>1. r \in Scripts /\ r.at = "licence" /\ r.kind = s.kind /\ r.id = s.id /\ r.page = page
        /\ r.fetch = s.fetch
    BY <1>1, <1>3 DEF Scripts
  <2> HIDE DEF r
  <2>2. /\ s.kind = "html" => stage = "receipt"
        /\ s.kind = "cycle" => stage = IF s.id.work \in Articles THEN "ranges" ELSE "pdf"
    BY <1>1 DEF Following
  <2>3. stage \in {"receipt", "ranges", "pdf"}
    BY <1>2, <2>2
  <2> DEFINE m == [r EXCEPT !.at = stage]
  <2>4. /\ m \in Scripts /\ m.at = stage /\ m.kind = s.kind /\ m.id = s.id
        /\ m.page = page /\ m.fetch = s.fetch
    BY <2>1, <2>3 DEF Scripts, Stages
  <2> HIDE DEF m, stage
  <2>5. s.id.work \in Articles => s.id \in ArticleIds
    BY <1>2, IntakeAssumption DEF Ids, PreprintIds, ArticleIds
  <2>6. s.id.work \notin Articles => s.id \in PreprintIds
    BY <1>2 DEF Ids, ArticleIds
  <2>7. Routed(m)
    BY <1>2, <1>3, <1>5, <2>2, <2>4, <2>5, <2>6, IntakeAssumption DEF Routed, Routes, Versions
  <2>8. Assembled(m)
    BY <1>1, <2>2, <2>4, NoBytesIsPrefix DEF GoodScript, Assembled
  <2>9. Cleared(m, licences)
    BY <1>3, <1>5, <2>2, <2>4 DEF Cleared
  <2>10. Becomes(t, m)
    <3>1. Becomes(t, Moved(r, stage))
      BY <1>5 DEF CheckLicence, stage, r
    <3>2. Moved(r, stage) = m
      BY <2>3 DEF Moved, m
    <3> QED
      BY <3>1, <3>2
  <2> QED
    BY <2>4, <2>7, <2>8, <2>9, <2>10, BecomesGood DEF GoodScript
<1> QED
  BY <1>4, <1>5

LEMMA FetchPdfGood ==
  ASSUME IntakeInv, NEW t \in Terminals, FetchPdf(t)
  PROVE  IntakeInv'
<1> DEFINE s == script[t]
           found == PdfVersion(s.id)
<1>1. s.at = "pdf" /\ s \in Scripts /\ GoodScript(s, licences)
  BY ScriptIsRecord DEF FetchPdf
<1>2. s.kind \in Routes /\ s.id \in PreprintIds /\ s.id.work \notin Articles
  BY <1>1, IntakeAssumption DEF GoodScript, Routed, PreprintIds
<1>3. found \in 0 .. MaxVersion /\ (s.id.version # 0 => found \in {0, s.id.version})
  BY <1>2, ResolvedIsVersion DEF IntakeInv, PdfVersion, Ids
<1>4. CASE found = 0
  BY <1>4, IdleIsGood, BecomesGood DEF FetchPdf
<1>5. CASE found # 0
  <2> DEFINE r == [s EXCEPT !.bytes = found]
             stage == Following(s)
  <2>1. r \in Scripts /\ r.at = "pdf" /\ r.kind = s.kind /\ r.id = s.id /\ r.page = s.page
        /\ r.bytes = found
    BY <1>1, <1>3 DEF Scripts
  <2> HIDE DEF r
  <2>2. stage = IF s.kind = "cycle" THEN "receipt" ELSE "document"
    BY <1>1 DEF Following
  <2> DEFINE m == [r EXCEPT !.at = stage]
  <2>3. /\ m \in Scripts /\ m.at = stage /\ m.kind = s.kind /\ m.id = s.id
        /\ m.page = s.page /\ m.bytes = found
    BY <2>1, <2>2 DEF Scripts, Stages
  <2> HIDE DEF m, stage
  <2>4. s.kind = "cycle" => s.page \in Versions
    BY <1>1, <1>2, <1>3, <1>5 DEF Routed, GoodScript
  <2>5. Routed(m)
    BY <1>1, <1>2, <1>3, <1>5, <2>2, <2>3, <2>4, IntakeAssumption
       DEF Routed, Routes, Versions, GoodScript, Ids
  <2>6. Assembled(m)
    BY <1>2, <2>3 DEF Assembled
  <2>7. Cleared(m, licences)
    BY <1>1, <1>3, <1>5, <2>2, <2>3 DEF Cleared, GoodScript
  <2>8. Becomes(t, m)
    <3>1. Becomes(t, Moved(r, stage))
      BY <1>5 DEF FetchPdf, stage, r
    <3>2. Moved(r, stage) = m
      BY <2>2 DEF Moved, m
    <3> QED
      BY <3>1, <3>2
  <2> QED
    BY <2>3, <2>5, <2>6, <2>7, <2>8, BecomesGood DEF GoodScript
<1> QED
  BY <1>4, <1>5

LEMMA ReadRangeGood ==
  ASSUME IntakeInv, NEW t \in Terminals, ReadRange(t)
  PROVE  IntakeInv'
<1> DEFINE s == script[t]
<1>1. s.at = "ranges" /\ s \in Scripts /\ GoodScript(s, licences)
  BY ScriptIsRecord DEF ReadRange
<1>2. s.kind = "cycle" /\ s.id \in ArticleIds /\ s.id.version = 1 /\ s.id.work \in Articles
  BY <1>1 DEF GoodScript, Routed, ArticleIds
<1>3. s.fetch \in Fetches /\ IsPrefix(s.fetch) /\ s.page = 1
  BY <1>1, <1>2 DEF GoodScript, Assembled, Cleared, Scripts
<1>4. PICK a \in Answers :
        Becomes(t, IF ~ Accepts(s.fetch, a) THEN Idle
                   ELSE IF Complete(Extended(s.fetch, a))
                   THEN Moved([s EXCEPT !.fetch = Extended(s.fetch, a), !.bytes = 1], Following(s))
                   ELSE [s EXCEPT !.fetch = Extended(s.fetch, a)])
  BY DEF ReadRange
<1>5. CASE ~ Accepts(s.fetch, a)
  BY <1>4, <1>5, IdleIsGood, BecomesGood
<1>6. CASE Accepts(s.fetch, a)
  <2> DEFINE f == Extended(s.fetch, a)
  <2>1. f \in Fetches /\ IsPrefix(f)
    BY <1>3, <1>6, ExtendedIsPrefix
  <2> HIDE DEF f
  <2>2. CASE ~ Complete(f)
    <3> DEFINE m == [s EXCEPT !.fetch = f]
    <3>1. /\ m \in Scripts /\ m.at = "ranges" /\ m.kind = s.kind /\ m.id = s.id
          /\ m.page = s.page /\ m.fetch = f
      BY <1>1, <2>1 DEF Scripts
    <3>2. Becomes(t, m)
      BY <1>4, <1>6, <2>2 DEF f
    <3> HIDE DEF m
    <3>3. GoodScript(m, licences)
      BY <1>1, <1>2, <2>1, <3>1 DEF GoodScript, Routed, Assembled, Cleared
    <3> QED
      BY <3>2, <3>3, BecomesGood
  <2>3. CASE Complete(f)
    <3>1. WholeFile(f)
      BY <2>1, <2>3, CompleteIsWhole
    <3>2. Following(s) = "receipt"
      BY <1>1, <1>2 DEF Following
    <3> DEFINE r == [s EXCEPT !.fetch = f, !.bytes = 1]
               m == [r EXCEPT !.at = "receipt"]
    <3>3. /\ r \in Scripts /\ r.kind = s.kind /\ r.id = s.id
          /\ r.page = s.page /\ r.fetch = f /\ r.bytes = 1
      <4>1. 1 \in 0 .. MaxVersion
        BY IntakeAssumption
      <4> QED
        BY <1>1, <2>1, <4>1 DEF Scripts
    <3>4. Becomes(t, m)
      <4>1. Becomes(t, Moved(r, Following(s)))
        BY <1>4, <1>6, <2>3 DEF f
      <4> QED
        BY <4>1, <3>2 DEF Moved
    <3> HIDE DEF r
    <3>5. /\ m \in Scripts /\ m.at = "receipt" /\ m.kind = s.kind /\ m.id = s.id
          /\ m.page = s.page /\ m.fetch = f /\ m.bytes = 1
      BY <3>3 DEF Scripts, Stages
    <3> HIDE DEF m
    <3>6. GoodScript(m, licences)
      BY <1>1, <1>2, <1>3, <3>1, <3>5, IntakeAssumption
         DEF GoodScript, Routed, Assembled, Cleared, Versions
    <3> QED
      BY <3>4, <3>6, BecomesGood
  <2> QED
    BY <2>2, <2>3
<1> QED
  BY <1>5, <1>6

(* A script at its receipt stage that goes on after the write.             *)
LEMMA PersistReceiptGood ==
  ASSUME IntakeInv, NEW t \in Terminals, PersistReceipt(t)
  PROVE  IntakeInv'
<1> DEFINE s == script[t]
           row == [source |-> s.id, page |-> s.page]
<1>1. s.at = "receipt" /\ s \in Scripts /\ GoodScript(s, licences)
  BY ScriptIsRecord DEF PersistReceipt
<1>2. s.kind \in {"cycle", "html"} /\ s.id \in Ids /\ s.page \in Versions
  BY <1>1 DEF GoodScript, Routed
<1>3. /\ latest' = latest /\ sources' = sources /\ documents' = documents
      /\ queue' = queue /\ started' = started
      /\ script' = [script EXCEPT ![t] = Moved(s, IF s.id \in sources THEN Following(s) ELSE "idle")]
      /\ licences' = IF s.id \in sources THEN licences \cup {row} ELSE licences
  BY DEF PersistReceipt
<1>4. licences \subseteq licences' /\ licences' \subseteq [source : Ids, page : Versions]
  BY <1>2, <1>3 DEF IntakeInv, IntakeTypeOK
<1>5. GoodScript(Moved(s, IF s.id \in sources THEN Following(s) ELSE "idle"), licences')
  <2>1. CASE s.id \notin sources \/ s.kind = "html"
    BY <1>1, <2>1, IdleIsGood DEF Moved, Following
  <2>2. CASE s.id \in sources /\ s.kind = "cycle"
    <3> DEFINE m == [s EXCEPT !.at = "document"]
    <3>1. /\ m \in Scripts /\ m.at = "document" /\ m.kind = s.kind /\ m.id = s.id
          /\ m.page = s.page /\ m.fetch = s.fetch /\ m.bytes = s.bytes
      BY <1>1 DEF Scripts, Stages
    <3> HIDE DEF m
    <3>2. GoodScript(m, licences')
      BY <1>1, <1>3, <2>2, <3>1 DEF GoodScript, Routed, Assembled, Cleared, Routes
    <3>3. Following(s) = "document"
      BY <1>1, <2>2 DEF Following
    <3> QED
      BY <2>2, <3>2, <3>3 DEF Moved, m
  <2> QED
    BY <1>2, <2>1, <2>2
<1>6. IntakeTypeOK'
  BY <1>3, <1>4, <1>5 DEF IntakeInv, IntakeTypeOK, GoodScript
<1>7. \A u \in Terminals : GoodScript(script'[u], licences')
  BY <1>3, <1>4, <1>5, GoodWithMore DEF IntakeInv, IntakeTypeOK
<1>8. DocumentIsLicensed'
  BY <1>3, <1>4 DEF IntakeInv, DocumentIsLicensed
<1> QED
  BY <1>6, <1>7, <1>8 DEF IntakeInv

LEMMA PersistFulltextGood ==
  ASSUME IntakeInv, NEW t \in Terminals, PersistFulltext(t)
  PROVE  IntakeInv'
<1> DEFINE s == script[t]
           row == [id |-> s.id, bytes |-> s.bytes, route |-> s.kind]
           m == Moved(s, IF s.id \in sources THEN Following(s) ELSE "idle")
<1>1. s.at = "document" /\ s \in Scripts /\ GoodScript(s, licences)
  BY ScriptIsRecord DEF PersistFulltext
<1>2. s.kind \in Routes /\ s.id \in Ids /\ s.bytes \in Versions
  BY <1>1 DEF GoodScript, Routed, Routes
<1>3. /\ latest' = latest /\ sources' = sources /\ licences' = licences
      /\ queue' = queue /\ started' = started /\ script' = [script EXCEPT ![t] = m]
      /\ documents' \in {documents, documents \cup {row}}
  BY DEF PersistFulltext
<1>4. m = Idle
  BY <1>1 DEF Moved, Following
<1> HIDE DEF m
<1>5. IntakeTypeOK'
  BY <1>2, <1>3, <1>4 DEF IntakeInv, IntakeTypeOK
<1>6. \A u \in Terminals : GoodScript(script'[u], licences')
  BY <1>3, <1>4, IdleIsGood DEF IntakeInv, IntakeTypeOK
<1>7. DocumentIsLicensed'
  BY <1>1, <1>3 DEF IntakeInv, DocumentIsLicensed, GoodScript, Cleared
<1> QED
  BY <1>5, <1>6, <1>7 DEF IntakeInv

-----------------------------------------------------------------------------
(* The invariant of the intake.                                            *)

LEMMA IntakeInvInit == IntakeInit => IntakeInv
<1> SUFFICES ASSUME IntakeInit PROVE IntakeInv
  OBVIOUS
<1>1. IntakeTypeOK
  BY IntakeAssumption DEF IntakeInit, IntakeTypeOK, Versions
<1>2. \A t \in Terminals : GoodScript(script[t], licences)
  BY IdleIsGood DEF IntakeInit
<1> QED
  BY <1>1, <1>2 DEF IntakeInit, IntakeInv, DocumentIsLicensed

(* Authors and the queue write nothing that is stored.                     *)
LEMMA OutsideGood ==
  ASSUME IntakeInv, BuildQueue \/ \E w \in Preprints : PublishVersion(w)
  PROVE  IntakeInv'
<1>1. /\ sources' = sources /\ licences' = licences /\ documents' = documents
      /\ script' = script /\ started' = started
  BY DEF BuildQueue, PublishVersion, storage
<1>2. queue' \subseteq PreprintIds
  BY DEF BuildQueue, PublishVersion, storage, IntakeInv, IntakeTypeOK, kSubset
<1>3. latest' \in [Preprints -> Versions]
  BY IntakeAssumption DEF BuildQueue, PublishVersion, IntakeInv, IntakeTypeOK, Versions
<1>4. IntakeTypeOK'
  BY <1>1, <1>2, <1>3 DEF IntakeInv, IntakeTypeOK
<1> QED
  BY <1>1, <1>4 DEF IntakeInv, DocumentIsLicensed

LEMMA StartsGood ==
  ASSUME IntakeInv, NEW t \in Terminals,
         \/ StartSearch(t)
         \/ \E id \in Ids : StartImport(t, id) \/ StartCycle(t, id) \/ StartVerify(t, id) \/ StartHtml(t, id)
  PROVE  IntakeInv'
<1>1. CASE StartSearch(t)
  BY <1>1, StartedGood DEF StartSearch, Stages, Kinds
<1>2. ASSUME NEW id \in Ids, StartImport(t, id) PROVE IntakeInv'
  <2>1. CASE id \in PreprintIds
    BY <1>2, <2>1, StartedGood DEF StartImport, Stages, Kinds
  <2>2. CASE id \notin PreprintIds
    BY <1>2, <2>2, StartedGood DEF StartImport, Stages, Kinds
  <2> QED BY <2>1, <2>2
<1>3. ASSUME NEW id \in Ids, StartCycle(t, id) PROVE IntakeInv'
  BY <1>3, StartedGood DEF StartCycle, Stages, Kinds
<1>4. ASSUME NEW id \in Ids, StartVerify(t, id) PROVE IntakeInv'
  BY <1>4, StartedGood DEF StartVerify, Stages, Kinds
<1>5. ASSUME NEW id \in Ids, StartHtml(t, id) PROVE IntakeInv'
  BY <1>5, StartedGood DEF StartHtml, Stages, Kinds
<1> QED
  BY <1>1, <1>2, <1>3, <1>4, <1>5

LEMMA IntakeInvStep == IntakeInv /\ [IntakeNext]_intakeVars => IntakeInv'
<1> SUFFICES ASSUME IntakeInv, [IntakeNext]_intakeVars PROVE IntakeInv'
  OBVIOUS
<1>1. ASSUME NEW t \in Terminals, ScriptStep(t) PROVE IntakeInv'
  BY <1>1, SearchGood, DiscoveryGood, PersistSourcesGood, CheckLicenceGood, FetchPdfGood,
     ReadRangeGood, PersistReceiptGood, PersistFulltextGood DEF ScriptStep
<1>2. ASSUME NEW t \in Terminals, ScriptFails(t) PROVE IntakeInv'
  BY <1>2, IdleIsGood, BecomesGood DEF ScriptFails
<1>3. ASSUME UNCHANGED intakeVars PROVE IntakeInv'
  BY <1>3 DEF intakeVars, IntakeInv, IntakeTypeOK, DocumentIsLicensed
<1> QED
  BY <1>1, <1>2, <1>3, OutsideGood, StartsGood DEF IntakeNext

(* What scripts hold and store keeps its type and its backing, whatever    *)
(* hosts answer, authors replace and scripts leave undone.                 *)
THEOREM IntakeInvariant == IntakeSpec => []IntakeInv
  BY IntakeInvInit, IntakeInvStep, PTL DEF IntakeSpec

(* A PDF read in ranges is whole, in order and within the limit when its   *)
(* receipt is made: for every size limit and every answer of the host.     *)
LEMMA IntakeInvAssembles == IntakeInv => AssembledIsWhole
  BY DEF IntakeInv, GoodScript, Assembled, AssembledIsWhole, WholeFile

THEOREM AssemblyIsWhole == IntakeSpec => []AssembledIsWhole
  BY IntakeInvariant, IntakeInvAssembles, PTL

(* A document that a cycle stored under a version has the bytes of that    *)
(* version, which is openly licensed, and the proof of it is stored.       *)
LEMMA IntakeInvLicenses == IntakeInv => DocumentIsLicensed
  BY DEF IntakeInv

THEOREM DocumentsAreLicensed == IntakeSpec => []DocumentIsLicensed
  BY IntakeInvariant, IntakeInvLicenses, PTL
=============================================================================
