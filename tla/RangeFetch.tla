----------------------------- MODULE RangeFetch -----------------------------
(***************************************************************************)
(* _read_static_pdf_ranges (publisher_fulltext_verification.py): a PDF is  *)
(* read from a static host in byte ranges.  The byte at position p of the  *)
(* file is p itself, so that a payload shows which bytes were put where.   *)
(***************************************************************************)
EXTENDS Naturals, Sequences

CONSTANT MaxBytes  \* _MAX_PDF_BYTES

ASSUME MaxBytesAssumption == MaxBytes \in Nat \ {0}

(* The host's answer to one range request: the status, the Content-Range   *)
(* header and the number of bytes read after it.                           *)
Answers == [status : {200, 206}, first : 0 .. MaxBytes, last : 0 .. MaxBytes,
            total : 0 .. MaxBytes + 1, sent : 0 .. MaxBytes + 1]

Fetches == [payload : Seq(0 .. MaxBytes), total : 0 .. MaxBytes]

\* the total is unknown before the first answer
NoBytes == [payload |-> <<>>, total |-> 0]

FileBytes(n) == [i \in 1 .. n |-> i - 1]

Expected(f) == Len(f.payload)

-----------------------------------------------------------------------------
(* Deliberate mistakes.                                                    *)

\* the range is not compared with the one asked for
AcceptsAnyStart(f, a) ==
  /\ a.status = 206 /\ a.first <= a.last
  /\ a.total \in 1 .. MaxBytes /\ a.last < a.total
  /\ f.total \in {0, a.total}
  /\ a.sent = a.last - a.first + 1

-----------------------------------------------------------------------------
Accepts(f, a) ==
  /\ a.status = 206
  /\ a.first = Expected(f) /\ a.first <= a.last
  /\ a.total \in 1 .. MaxBytes /\ a.last < a.total
  /\ f.total \in {0, a.total}
  /\ a.sent = a.last - a.first + 1

(* payload.extend(part)                                                    *)
Extended(f, a) ==
  [payload |-> f.payload \o [i \in 1 .. a.sent |-> a.first + i - 1], total |-> a.total]

Complete(f) == f.total # 0 /\ Expected(f) >= f.total

(* What has been read so far is the beginning of the file, and no more     *)
(* than the declared and the allowed size.                                 *)
IsPrefix(f) ==
  /\ f.payload = FileBytes(Expected(f))
  /\ Expected(f) <= f.total /\ f.total <= MaxBytes
=============================================================================
