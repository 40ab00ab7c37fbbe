------------------------- MODULE ControlPlaneProofs -------------------------
(***************************************************************************)
(* Proofs about the composed control plane, for any number of workers,     *)
(* tasks, messages, crashes, failed calls and stalls.  Every step is a     *)
(* transaction of TaskLedger or leaves its rows alone, so that what        *)
(* TaskLedgerProofs shows of the ledger holds here too; the invariant adds *)
(* what a worker relies on at each place of its loop.                      *)
(***************************************************************************)
EXTENDS ReaperWatch, TaskLedgerProofs

Invalid == Misnamed \cup Malformed

WorkerRecords ==
  [at : Places, message : Messages \cup {NoMessage}, task : Tasks \cup {NoTask},
   lease : Executions \cup {NoExecution}, todo : [Messages -> Nat], seen : SUBSET Tasks]

Handling == {"attempt", "call", "await", "complete", "fail"}

(* What worker w relies on where it stands.                                *)
GoodWorker(w) ==
  LET r == worker[w] IN
  /\ r.at = "loop" => r.task = NoTask
  /\ r.at \in {"mark", "requeue", "acknowledge"} => r.message \in Named
  /\ r.at = "mark" => r.message \in published
  /\ r.at \in Handling =>
       r.lease \in Executions /\ r.task \in Tasks /\ owner[r.lease] = r.task
  /\ r.at \in {"call", "await", "complete"} => attempt[r.lease] # "none"
  /\ r.at = "await" => r.lease \in called
  /\ r.at = "complete" => r.lease \in answered \/ r.task \in Smoke
  /\ r.message \in Invalid =>
       /\ r.at = "claim" => r.task = NoTask
       /\ r.at \notin Handling
       /\ r.at = "ack" => dead[r.message] > 0

ReceiptsAnswered == \A e \in receipts : owner[e] \notin Smoke => e \in answered

(* TypeOK without the rows of the ledger.                                  *)
PlaneTypes ==
  /\ outbox \in [Tasks -> OutboxState]
  /\ claimant \in [Tasks -> Workers \cup {NoWorker}]
  /\ waiting \in Seq(Messages)
  /\ processing \in [Messages -> Nat] /\ dead \in [Messages -> Nat]
  /\ aged \in SUBSET Tasks
  /\ worker \in [Workers -> WorkerRecords]
  /\ produced \in SUBSET Messages
  /\ called \in SUBSET Executions /\ answered \in SUBSET called
  /\ published \in SUBSET Tasks
  /\ crashes \in 0 .. MaxCrashes /\ faults \in 0 .. MaxFaults

PlaneInv ==
  /\ LedgerInv /\ PlaneTypes
  /\ \A w \in Workers : GoodWorker(w)
  /\ ReceiptsAnswered
  /\ CallIsOnRecord
  /\ DeliveredWasPublished
  /\ InvalidIsKept

-----------------------------------------------------------------------------
(* Bags and sequences of messages.                                         *)

LEMMA CopiesAreBags ==
  ASSUME NEW copies \in [Messages -> Nat], NEW m
  PROVE  /\ Add(copies, m) \in [Messages -> Nat] /\ Remove(copies, m) \in [Messages -> Nat]
         /\ \A x \in Messages : Add(copies, m)[x] >= copies[x]
         /\ m \in Messages => Add(copies, m)[m] > 0
         /\ \A x \in Messages : x # m => Remove(copies, m)[x] = copies[x]
<1>1. ASSUME NEW x \in Messages PROVE copies[x] \in Nat /\ copies[x] + 1 \in Nat /\ copies[x] + 1 > copies[x]
  OBVIOUS
<1>2. Add(copies, m) = [x \in Messages |-> IF x = m THEN copies[x] + 1 ELSE copies[x]]
  BY DEF Add
<1>3. Remove(copies, m) = [x \in Messages |-> IF x = m THEN (IF copies[x] = 0 THEN 0 ELSE copies[x] - 1)
                                               ELSE copies[x]]
  BY DEF Remove
<1> QED
  BY <1>1, <1>2, <1>3

LEMMA NoCopiesIsBag == NoCopies \in [Messages -> Nat]
  BY DEF NoCopies

LEMMA NamedIsMessage == Named \subseteq Messages /\ Named \subseteq Tasks
  BY DEF Named, Messages

LEMMA InvalidIsUnnamed ==
  ASSUME NEW m \in Invalid
  PROVE  m \notin Named /\ m \notin Nameless /\ m \in Messages
  BY ControlPlaneAssumption DEF Invalid, Named, Messages

(* A message joins the tail of the list.                                   *)
LEMMA AppendKeepsWaiting ==
  ASSUME waiting \in Seq(Messages), NEW x \in Messages, waiting' = Append(waiting, x)
  PROVE  /\ waiting' \in Seq(Messages) /\ InWaiting(x)'
         /\ \A m \in Messages : InWaiting(m) => InWaiting(m)'
<1>1. waiting' \in Seq(Messages) /\ Len(waiting') = Len(waiting) + 1
  OBVIOUS
<1>2. DOMAIN waiting = 1 .. Len(waiting) /\ DOMAIN waiting' = 1 .. Len(waiting') /\ Len(waiting) \in Nat
  BY <1>1
<1>3. \A i \in 1 .. Len(waiting) : waiting'[i] = waiting[i]
  OBVIOUS
<1>4. waiting'[Len(waiting) + 1] = x
  OBVIOUS
<1>5. InWaiting(x)'
  BY <1>1, <1>2, <1>4 DEF InWaiting
<1>6. ASSUME NEW m \in Messages, NEW i \in 1 .. Len(waiting), waiting[i] = m
      PROVE  InWaiting(m)'
  <2>1. i \in 1 .. Len(waiting')
    BY <1>1
  <2> QED
    BY <1>2, <1>3, <1>6, <2>1 DEF InWaiting
<1>7. \A m \in Messages : InWaiting(m) => InWaiting(m)'
  BY <1>2, <1>6 DEF InWaiting
<1> QED
  BY <1>1, <1>5, <1>7

(* The head of the list leaves it.                                         *)
LEMMA TailKeepsWaiting ==
  ASSUME waiting \in Seq(Messages), waiting # <<>>, waiting' = Tail(waiting)
  PROVE  /\ waiting' \in Seq(Messages) /\ Head(waiting) \in Messages
         /\ \A m \in Messages : InWaiting(m) => InWaiting(m)' \/ m = Head(waiting)
<1>1. waiting' \in Seq(Messages) /\ Len(waiting') = Len(waiting) - 1 /\ Len(waiting) \in Nat
  OBVIOUS
<1>2. DOMAIN waiting = 1 .. Len(waiting) /\ DOMAIN waiting' = 1 .. Len(waiting')
  BY <1>1
<1>3. \A i \in 1 .. Len(waiting') : waiting'[i] = waiting[i + 1]
  BY <1>1
<1>4. Head(waiting) = waiting[1] /\ Head(waiting) \in Messages
  OBVIOUS
<1>5. ASSUME NEW m \in Messages, NEW i \in 1 .. Len(waiting), waiting[i] = m, m # Head(waiting)
      PROVE  InWaiting(m)'
  <2>1. i - 1 \in 1 .. Len(waiting')
    BY <1>1, <1>4, <1>5
  <2>2. waiting'[i - 1] = m
    BY <1>3, <1>5, <2>1
  <2> QED
    BY <1>2, <2>1, <2>2 DEF InWaiting
<1> QED
  BY <1>1, <1>2, <1>4, <1>5 DEF InWaiting

(* A message goes back to the head of the list.                            *)
LEMMA PrependKeepsWaiting ==
  ASSUME waiting \in Seq(Messages), NEW x \in Messages, waiting' = <<x>> \o waiting
  PROVE  /\ waiting' \in Seq(Messages) /\ InWaiting(x)'
         /\ \A m \in Messages : InWaiting(m) => InWaiting(m)'
<1>1. waiting' \in Seq(Messages) /\ Len(waiting') = Len(waiting) + 1 /\ Len(waiting) \in Nat
  OBVIOUS
<1>2. DOMAIN waiting = 1 .. Len(waiting) /\ DOMAIN waiting' = 1 .. Len(waiting')
  BY <1>1
<1>3. \A i \in 1 .. Len(waiting) : waiting'[i + 1] = waiting[i]
  BY <1>1
<1>4. waiting'[1] = x
  OBVIOUS
<1>5. ASSUME NEW m \in Messages, NEW i \in 1 .. Len(waiting), waiting[i] = m
      PROVE  InWaiting(m)'
  <2>1. i + 1 \in 1 .. Len(waiting')
    BY <1>1
  <2> QED
    BY <1>2, <1>3, <1>5, <2>1 DEF InWaiting
<1>6. InWaiting(x)'
  <2>1. 1 \in 1 .. Len(waiting')
    BY <1>1
  <2> QED
    BY <1>2, <1>4, <2>1 DEF InWaiting
<1>7. \A m \in Messages : InWaiting(m) => InWaiting(m)'
  BY <1>2, <1>5 DEF InWaiting
<1> QED
  BY <1>1, <1>6, <1>7

-----------------------------------------------------------------------------
(* What no step takes away.                                                *)

(* Executions stay with their task, and attempts stay on record.           *)
LEMMA LedgerGrows ==
  ASSUME LedgerInv, [LedgerNext]_ledgerVars, NEW e \in Executions
  PROVE  /\ owner[e] # NoTask => owner'[e] = owner[e]
         /\ attempt[e] # "none" => attempt'[e] # "none"
<1> USE DEF LedgerInv, LedgerTypeOK
<1>1. ASSUME NEW t \in Tasks, RecordQueuedTask(t) \/ LeaseExpires(t) \/ RecoverDelivery(t)
      PROVE  owner' = owner /\ attempt' = attempt
  BY <1>1 DEF RecordQueuedTask, LeaseExpires, RecoverDelivery
<1>2. ASSUME NEW t \in Tasks, NEW f \in Executions, ClaimUncertain(t, f)
      PROVE  owner' = owner /\ (attempt[e] # "none" => attempt'[e] # "none")
  BY <1>2 DEF ClaimUncertain
<1>3. ASSUME NEW t \in Tasks, NEW f \in Executions, ClaimGranted(t, f)
      PROVE  attempt' = attempt /\ (owner[e] # NoTask => owner'[e] = owner[e])
  BY <1>3 DEF ClaimGranted
<1>4. ASSUME NEW f \in Executions, RecordProviderAttempt(f) \/ RecordCompletion(f) \/ RecordFailed(f)
      PROVE  owner' = owner /\ (attempt[e] # "none" => attempt'[e] # "none")
  BY <1>4 DEF RecordProviderAttempt, RecordCompletion, RecordFailed
<1>5. ASSUME NEW S \in SUBSET Tasks, ReapOrphans(S)
      PROVE  owner' = owner /\ attempt' = attempt
  BY <1>5 DEF ReapOrphans
<1>6. ASSUME UNCHANGED ledgerVars PROVE owner' = owner /\ attempt' = attempt
  BY <1>6 DEF ledgerVars
<1> QED
  BY <1>1, <1>2, <1>3, <1>4, <1>5, <1>6 DEF LedgerNext, ClaimRefused

(* A step of the ledger, more history and more dead letters.               *)
Grows ==
  /\ [LedgerNext]_ledgerVars
  /\ called \subseteq called' /\ answered \subseteq answered' /\ published \subseteq published'
  /\ \A m \in Messages : dead'[m] >= dead[m]

(* A worker that does not move relies on nothing that is taken away.       *)
LEMMA OthersGood ==
  ASSUME PlaneInv, Grows, PlaneTypes', NEW w \in Workers, worker'[w] = worker[w]
  PROVE  GoodWorker(w)'
<1> DEFINE r == worker[w]
<1>1. r \in WorkerRecords /\ GoodWorker(w)
  BY DEF PlaneInv, PlaneTypes
<1>2. r.at \in Handling => owner'[r.lease] = owner[r.lease]
  <2> SUFFICES ASSUME r.at \in Handling PROVE owner'[r.lease] = owner[r.lease]
    OBVIOUS
  <2>1. r.lease \in Executions /\ owner[r.lease] # NoTask
    BY <1>1, LedgerAssumption DEF GoodWorker
  <2> QED
    BY <2>1, LedgerGrows DEF PlaneInv, Grows
<1>3. r.at \in {"call", "await", "complete"} => attempt'[r.lease] # "none"
  <2> SUFFICES ASSUME r.at \in {"call", "await", "complete"} PROVE attempt'[r.lease] # "none"
    OBVIOUS
  <2>1. r.lease \in Executions /\ attempt[r.lease] # "none"
    BY <1>1 DEF GoodWorker, Handling
  <2> QED
    BY <2>1, LedgerGrows DEF PlaneInv, Grows
<1>4. r.message \in Invalid /\ r.at = "ack" => dead'[r.message] > 0
  <2> SUFFICES ASSUME r.message \in Invalid, r.at = "ack" PROVE dead'[r.message] > 0
    OBVIOUS
  <2>1. r.message \in Messages /\ dead[r.message] > 0
    BY <1>1, InvalidIsUnnamed DEF GoodWorker
  <2>2. dead[r.message] \in Nat /\ dead'[r.message] \in Nat
    BY <2>1 DEF PlaneInv, PlaneTypes
  <2> QED
    BY <2>1, <2>2 DEF Grows
<1> QED
  BY <1>1, <1>2, <1>3, <1>4 DEF GoodWorker, Grows

(* The invariant holds again when its parts do.                            *)
LEMMA Assembled ==
  ASSUME PlaneInv, Grows, PlaneTypes', ReceiptsAnswered', InvalidIsKept',
         \A e \in called' : e \in called \/ attempt'[e] # "none",
         \A t \in Tasks : outbox'[t] = "delivered" => t \in published',
         NEW w, GoodWorker(w)',
         \A v \in Workers : v # w => worker'[v] = worker[v]
  PROVE  PlaneInv'
<1>1. LedgerInv'
  BY NextInv DEF PlaneInv, Grows
<1>2. \A v \in Workers : GoodWorker(v)'
  BY OthersGood
<1>3. CallIsOnRecord'
  <2> SUFFICES ASSUME NEW e \in called' PROVE attempt'[e] # "none"
    BY DEF CallIsOnRecord
  <2>1. e \in Executions
    BY DEF PlaneTypes
  <2> QED
    BY <2>1, LedgerGrows DEF PlaneInv, Grows, CallIsOnRecord
<1>4. DeliveredWasPublished'
  BY DEF DeliveredWasPublished
<1> QED
  BY <1>1, <1>2, <1>3, <1>4 DEF PlaneInv

(* Worker w goes on as r; the ledger may change, lists and history do not. *)
LEMMA LocalStep ==
  ASSUME PlaneInv, [LedgerNext]_ledgerVars, NEW w \in Workers, NEW r \in WorkerRecords,
         worker' = [worker EXCEPT ![w] = r], GoodWorker(w)',
         UNCHANGED <<outboxVars, redisVars, historyVars, aged>>,
         crashes' \in 0 .. MaxCrashes, faults' \in 0 .. MaxFaults, ReceiptsAnswered'
  PROVE  PlaneInv'
<1>1. /\ outbox' = outbox /\ claimant' = claimant
      /\ waiting' = waiting /\ processing' = processing /\ dead' = dead
      /\ produced' = produced /\ called' = called /\ answered' = answered
      /\ published' = published /\ aged' = aged
  BY DEF outboxVars, redisVars, historyVars
<1>2. PlaneTypes'
  BY <1>1 DEF PlaneInv, PlaneTypes
<1>3. Grows
  BY <1>1 DEF Grows, PlaneInv, PlaneTypes
<1>4. InvalidIsKept'
  BY <1>1 DEF PlaneInv, InvalidIsKept, InRedis, InWaiting
<1>5. /\ \A e \in called' : e \in called \/ attempt'[e] # "none"
      /\ \A t \in Tasks : outbox'[t] = "delivered" => t \in published'
  BY <1>1 DEF PlaneInv, DeliveredWasPublished
<1>6. \A v \in Workers : v # w => worker'[v] = worker[v]
  BY DEF PlaneInv, PlaneTypes
<1> QED
  BY <1>2, <1>3, <1>4, <1>5, <1>6, Assembled

LEMMA WorkerIsRecord ==
  ASSUME PlaneInv, NEW w \in Workers
  PROVE  worker[w] \in WorkerRecords /\ GoodWorker(w)
  BY DEF PlaneInv, PlaneTypes

LEMMA RestingIsGood ==
  ASSUME NEW place \in {"loop", "down"}
  PROVE  /\ Resting(place) \in WorkerRecords /\ Resting(place).at = place
         /\ Resting(place).task = NoTask /\ Resting(place).message = NoMessage
         /\ Resting(place).message \notin Messages
  BY NoCopiesIsBag, ControlPlaneAssumption DEF Resting, WorkerRecords, Places

(* A worker that starts over relies on nothing.                            *)
LEMMA RestedIsGood ==
  ASSUME PlaneTypes, NEW w \in Workers, NEW place \in {"loop", "down"},
         worker' = [worker EXCEPT ![w] = Resting(place)]
  PROVE  GoodWorker(w)' /\ Resting(place) \in WorkerRecords
<1>1. worker'[w] = Resting(place)
  BY DEF PlaneTypes
<1>2. NoMessage \notin Invalid
  BY InvalidIsUnnamed, ControlPlaneAssumption
<1> QED
  BY <1>1, <1>2, RestingIsGood DEF GoodWorker, Handling

(* Receipts that were there stay answered.                                 *)
LEMMA ReceiptsKept ==
  ASSUME PlaneInv, [LedgerNext]_ledgerVars, receipts' = receipts, answered \subseteq answered'
  PROVE  ReceiptsAnswered'
<1> SUFFICES ASSUME NEW e \in receipts, owner'[e] \notin Smoke PROVE e \in answered'
  BY DEF ReceiptsAnswered
<1>1. e \in Executions /\ owner[e] # NoTask
  BY DEF PlaneInv, LedgerInv, LedgerTypeOK, RowsAgree
<1>2. owner'[e] = owner[e]
  BY <1>1, LedgerGrows DEF PlaneInv
<1> QED
  BY <1>2 DEF PlaneInv, ReceiptsAnswered

-----------------------------------------------------------------------------
(* Steps of a worker that change nothing but rows and its own place.       *)

(* Worker w starts over after a transaction, or a failed one.              *)
LEMMA RestGood ==
  ASSUME PlaneInv, [LedgerNext]_ledgerVars, receipts' = receipts, NEW w \in Workers,
         NEW place \in {"loop", "down"}, worker' = [worker EXCEPT ![w] = Resting(place)],
         UNCHANGED <<outboxVars, redisVars, historyVars, aged>>,
         crashes' \in 0 .. MaxCrashes, faults' \in 0 .. MaxFaults
  PROVE  PlaneInv'
<1>1. GoodWorker(w)' /\ Resting(place) \in WorkerRecords
  BY RestedIsGood DEF PlaneInv
<1>2. ReceiptsAnswered'
  BY ReceiptsKept DEF historyVars
<1> QED
  BY <1>1, <1>2, LocalStep

LEMMA Counted ==
  ASSUME PlaneInv
  PROVE  /\ crashes \in 0 .. MaxCrashes /\ faults \in 0 .. MaxFaults
         /\ NoFault \/ Fault => faults' \in 0 .. MaxFaults
         /\ crashes < MaxCrashes => crashes + 1 \in 0 .. MaxCrashes
  BY ControlPlaneAssumption DEF PlaneInv, PlaneTypes, NoFault, Fault

LEMMA StartsOverGood ==
  ASSUME PlaneInv, NEW w \in Workers, PublishDone(w) \/ Crash(w) \/ Restart(w)
  PROVE  PlaneInv'
<1>1. [LedgerNext]_ledgerVars /\ receipts' = receipts
  BY DEF PublishDone, Crash, Restart, ledgerVars
<1>2. /\ UNCHANGED <<outboxVars, redisVars, historyVars, aged>>
      /\ crashes' \in 0 .. MaxCrashes /\ faults' \in 0 .. MaxFaults
  BY Counted DEF PublishDone, Crash, Restart
<1>3. PICK place \in {"loop", "down"} : worker' = [worker EXCEPT ![w] = Resting(place)]
  BY DEF PublishDone, Crash, Restart, Rest
<1> QED
  BY <1>1, <1>2, <1>3, RestGood

(* A place a worker looks at lists and rows from relies on nothing.        *)
LEMMA LookingGood ==
  ASSUME PlaneInv, [LedgerNext]_ledgerVars, receipts' = receipts, NEW w \in Workers,
         NEW r \in WorkerRecords, worker' = [worker EXCEPT ![w] = r],
         r.at \in {"publish", "recover", "requeue", "acknowledge", "reapProcessing", "reapRows"},
         r.at \in {"requeue", "acknowledge"} => r.message \in Named,
         UNCHANGED <<outboxVars, redisVars, historyVars, aged>>,
         crashes' = crashes, faults' \in 0 .. MaxFaults
  PROVE  PlaneInv'
<1>1. worker'[w] = r
  BY DEF PlaneInv, PlaneTypes
<1>2. GoodWorker(w)'
  BY <1>1 DEF GoodWorker, Handling
<1>3. ReceiptsAnswered'
  BY ReceiptsKept DEF historyVars
<1> QED
  BY <1>2, <1>3, Counted, LocalStep

LEMMA StartRecoveryGood ==
  ASSUME PlaneInv, NEW w \in Workers, StartRecovery(w)
  PROVE  PlaneInv'
<1> DEFINE r == [worker[w] EXCEPT !.at = "recover", !.todo = processing]
<1>1. r \in WorkerRecords /\ r.at = "recover"
  <2>1. worker[w] \in WorkerRecords /\ processing \in [Messages -> Nat]
    BY WorkerIsRecord DEF PlaneInv, PlaneTypes
  <2>2. "recover" \in Places
    BY DEF Places
  <2> QED
    BY <2>1, <2>2 DEF WorkerRecords
<1>2. worker' = [worker EXCEPT ![w] = r]
  BY DEF StartRecovery
<1> HIDE DEF r
<1>3. [LedgerNext]_ledgerVars /\ receipts' = receipts
  BY DEF StartRecovery, ledgerVars
<1>4. crashes' = crashes /\ faults' \in 0 .. MaxFaults
      /\ UNCHANGED <<outboxVars, redisVars, historyVars, aged>>
  BY Counted DEF StartRecovery
<1> QED
  BY <1>1, <1>2, <1>3, <1>4, LookingGood

(* The record that DropItem leaves.                                        *)
LEMMA DroppedIsRecord ==
  ASSUME PlaneInv, NEW w \in Workers, NEW m, NEW place \in Places, DropItem(w, m, place)
  PROVE  \E r \in WorkerRecords :
           /\ worker' = [worker EXCEPT ![w] = r] /\ r.at = place /\ r.task = worker[w].task
           /\ r.message = NoMessage /\ r.lease = worker[w].lease
<1> DEFINE s == worker[w]
           r == [s EXCEPT !.todo = Remove(@, m), !.message = NoMessage, !.at = place]
<1>1. s \in WorkerRecords
  BY WorkerIsRecord
<1>2. Remove(s.todo, m) \in [Messages -> Nat]
  BY <1>1, CopiesAreBags DEF WorkerRecords
<1>3. r \in WorkerRecords
  BY <1>1, <1>2 DEF WorkerRecords
<1>4. r.at = place /\ r.task = s.task /\ r.message = NoMessage /\ r.lease = s.lease
  BY <1>1 DEF WorkerRecords
<1>5. worker' = [worker EXCEPT ![w] = r]
  BY DEF DropItem
<1> QED
  BY <1>3, <1>4, <1>5

LEMMA RecoverRowGood ==
  ASSUME PlaneInv, NEW w \in Workers, NEW t \in Messages, RecoverRow(w, t)
  PROVE  PlaneInv'
<1> DEFINE s == worker[w]
<1>1. t \in Named /\ t \in Tasks
  BY NamedIsMessage DEF RecoverRow
<1>2. [LedgerNext]_ledgerVars /\ receipts' = receipts
  BY <1>1 DEF RecoverRow, RecoverDelivery, LedgerNext, ledgerVars
<1>3. /\ UNCHANGED <<outboxVars, redisVars, historyVars, aged>>
      /\ crashes' = crashes /\ faults' \in 0 .. MaxFaults
  BY Counted DEF RecoverRow
<1>4. \/ \E place \in {"requeue", "acknowledge"} :
           worker' = [worker EXCEPT ![w].at = place, ![w].message = t]
      \/ DropItem(w, t, "recover")
  BY DEF RecoverRow
<1>5. ASSUME NEW place \in {"requeue", "acknowledge"},
             worker' = [worker EXCEPT ![w].at = place, ![w].message = t]
      PROVE  PlaneInv'
  <2> DEFINE r == [s EXCEPT !.at = place, !.message = t]
  <2>1. r \in WorkerRecords /\ r.at = place /\ r.message = t
    BY WorkerIsRecord DEF WorkerRecords, Places
  <2>2. worker' = [worker EXCEPT ![w] = r]
    BY <1>5
  <2> HIDE DEF r
  <2> QED
    BY <1>1, <1>2, <1>3, <2>1, <2>2, LookingGood
<1>6. CASE DropItem(w, t, "recover")
  BY <1>2, <1>3, <1>6, DroppedIsRecord, LookingGood DEF Places
<1> QED
  BY <1>4, <1>5, <1>6

LEMMA ReapReadsGood ==
  ASSUME PlaneInv, NEW w \in Workers, ReapReadWaiting(w) \/ ReapReadProcessing(w)
  PROVE  PlaneInv'
<1> DEFINE s == worker[w]
<1>1. [LedgerNext]_ledgerVars /\ receipts' = receipts
  BY DEF ReapReadWaiting, ReapReadProcessing, ledgerVars
<1>2. /\ UNCHANGED <<outboxVars, redisVars, historyVars, aged>>
      /\ crashes' = crashes /\ faults' \in 0 .. MaxFaults
  BY Counted DEF ReapReadWaiting, ReapReadProcessing
<1>3. \/ \E place \in {"reapProcessing", "reapRows"}, seen \in SUBSET Tasks :
           worker' = [worker EXCEPT ![w].at = place, ![w].seen = seen]
      \/ Rest(w)
  <2>1. s.seen \in SUBSET Tasks
    BY WorkerIsRecord DEF WorkerRecords
  <2>2. {t \in Named : InWaiting(t)} \in SUBSET Tasks
        /\ s.seen \cup {t \in Named : processing[t] > 0} \in SUBSET Tasks
    BY <2>1, NamedIsMessage
  <2>3. CASE ReapReadWaiting(w)
    BY <2>2, <2>3 DEF ReapReadWaiting
  <2>4. CASE ReapReadProcessing(w)
    BY <2>2, <2>4 DEF ReapReadProcessing
  <2> QED
    BY <2>3, <2>4
<1>4. ASSUME NEW place \in {"reapProcessing", "reapRows"}, NEW seen \in SUBSET Tasks,
             worker' = [worker EXCEPT ![w].at = place, ![w].seen = seen]
      PROVE  PlaneInv'
  <2> DEFINE r == [s EXCEPT !.at = place, !.seen = seen]
  <2>1. r \in WorkerRecords /\ r.at = place
    BY WorkerIsRecord DEF WorkerRecords, Places
  <2>2. worker' = [worker EXCEPT ![w] = r]
    BY <1>4
  <2> HIDE DEF r
  <2> QED
    BY <1>1, <1>2, <2>1, <2>2, LookingGood
<1>5. CASE Rest(w)
  BY <1>1, <1>2, <1>5, Counted, RestGood DEF Rest
<1> QED
  BY <1>3, <1>4, <1>5

LEMMA ReapRowsGood ==
  ASSUME PlaneInv, NEW w \in Workers, ReapRows(w)
  PROVE  PlaneInv'
<1>1. [LedgerNext]_ledgerVars /\ receipts' = receipts
  <2>1. {t \in aged : status[t] = "queued" /\ t \notin worker[w].seen} \in SUBSET Tasks
    BY DEF PlaneInv, PlaneTypes
  <2>2. CASE UNCHANGED ledgerVars
    BY <2>2 DEF ledgerVars
  <2>3. CASE ReapOrphans({t \in aged : status[t] = "queued" /\ t \notin worker[w].seen})
    BY <2>1, <2>3 DEF LedgerNext, ReapOrphans
  <2> QED
    BY <2>2, <2>3 DEF ReapRows
<1>2. /\ UNCHANGED <<outboxVars, redisVars, historyVars, aged>>
      /\ crashes' \in 0 .. MaxCrashes /\ faults' \in 0 .. MaxFaults
  BY Counted DEF ReapRows
<1> QED
  BY <1>1, <1>2, RestGood DEF ReapRows, Rest

-----------------------------------------------------------------------------
(* The handler.                                                            *)

(* A handler moves on with its message, task and lease.                    *)
LEMMA GotoGood ==
  ASSUME PlaneInv, NEW w \in Workers, NEW place \in Places, Goto(w, place)
  PROVE  \E r \in WorkerRecords :
           /\ worker' = [worker EXCEPT ![w] = r] /\ r.at = place
           /\ r.message = worker[w].message /\ r.task = worker[w].task /\ r.lease = worker[w].lease
<1> DEFINE r == [worker[w] EXCEPT !.at = place]
<1>1. r \in WorkerRecords /\ r.at = place
      /\ r.message = worker[w].message /\ r.task = worker[w].task /\ r.lease = worker[w].lease
  BY WorkerIsRecord DEF WorkerRecords
<1>2. worker' = [worker EXCEPT ![w] = r]
  BY DEF Goto
<1> QED
  BY <1>1, <1>2

(* What a handler brings along from its claim.                             *)
LEMMA HandlerHasLease ==
  ASSUME PlaneInv, NEW w \in Workers, worker[w].at \in Handling
  PROVE  /\ worker[w].lease \in Executions /\ worker[w].task \in Tasks
         /\ owner[worker[w].lease] = worker[w].task /\ owner[worker[w].lease] # NoTask
         /\ worker[w].message \notin Invalid
  BY WorkerIsRecord, LedgerAssumption DEF GoodWorker

LEMMA ClaimGood ==
  ASSUME PlaneInv, NEW w \in Workers, Claim(w)
  PROVE  PlaneInv'
<1> DEFINE s == worker[w]
           t == s.task
           e == CHOOSE x \in Unused : TRUE
<1>1. s.at = "claim" /\ s \in WorkerRecords /\ (t # NoTask => t \in Tasks)
  BY WorkerIsRecord DEF Claim, WorkerRecords
<1>2. /\ UNCHANGED <<outboxVars, redisVars, historyVars, aged>>
      /\ crashes' \in 0 .. MaxCrashes /\ faults' \in 0 .. MaxFaults
  BY Counted DEF Claim
<1>3. t # NoTask => s.message \notin Invalid
  BY <1>1, WorkerIsRecord DEF GoodWorker
<1>4. \/ /\ t # NoTask /\ Unused # {} /\ ClaimGranted(t, e)
         /\ worker' = [worker EXCEPT ![w].at = "attempt", ![w].lease = e]
      \/ /\ t # NoTask /\ Goto(w, "ack")
         /\ (\E f \in Executions : ClaimUncertain(t, f)) \/ ClaimRefused(t)
      \/ Rest(w) /\ UNCHANGED ledgerVars
  BY DEF Claim
<1>5. CASE /\ t # NoTask /\ Unused # {} /\ ClaimGranted(t, e)
           /\ worker' = [worker EXCEPT ![w].at = "attempt", ![w].lease = e]
  <2>1. e \in Executions
    BY <1>5 DEF Unused
  <2> HIDE DEF e
  <2> DEFINE r == [s EXCEPT !.at = "attempt", !.lease = e]
  <2>2. r \in WorkerRecords /\ r.at = "attempt" /\ r.lease = e /\ r.task = t /\ r.message = s.message
    BY <1>1, <2>1 DEF WorkerRecords, Places
  <2>3. worker' = [worker EXCEPT ![w] = r]
    BY <1>5
  <2> HIDE DEF r
  <2>4. worker'[w] = r
    BY <2>3 DEF PlaneInv, PlaneTypes
  <2>5. /\ [LedgerNext]_ledgerVars /\ receipts' = receipts /\ owner'[e] = t
    BY <1>1, <1>5, <2>1 DEF ClaimGranted, LedgerNext, PlaneInv, LedgerInv, LedgerTypeOK
  <2>6. GoodWorker(w)'
    BY <1>1, <1>3, <1>5, <2>1, <2>2, <2>4, <2>5 DEF GoodWorker, Handling
  <2>7. ReceiptsAnswered'
    BY <1>2, <2>5, ReceiptsKept DEF historyVars
  <2> QED
    BY <1>2, <2>2, <2>3, <2>5, <2>6, <2>7, LocalStep
<1>6. CASE /\ t # NoTask /\ Goto(w, "ack")
           /\ (\E f \in Executions : ClaimUncertain(t, f)) \/ ClaimRefused(t)
  <2>1. PICK r \in WorkerRecords : /\ worker' = [worker EXCEPT ![w] = r] /\ r.at = "ack"
                                   /\ r.message = s.message
    BY <1>6, GotoGood DEF Places
  <2>2. worker'[w] = r
    BY <2>1 DEF PlaneInv, PlaneTypes
  <2>3. [LedgerNext]_ledgerVars /\ receipts' = receipts
    BY <1>1, <1>6 DEF ClaimUncertain, ClaimRefused, LedgerNext, ledgerVars
  <2>4. GoodWorker(w)'
    BY <1>3, <1>6, <2>1, <2>2 DEF GoodWorker, Handling
  <2>5. ReceiptsAnswered'
    BY <1>2, <2>3, ReceiptsKept DEF historyVars
  <2> QED
    BY <1>2, <2>1, <2>3, <2>4, <2>5, LocalStep
<1>7. CASE Rest(w) /\ UNCHANGED ledgerVars
  BY <1>2, <1>7, RestGood DEF Rest, ledgerVars
<1> QED
  BY <1>4, <1>5, <1>6, <1>7

(* A handler goes on to place, its attempt being on record where it must.  *)
LEMMA HandlerMoves ==
  ASSUME PlaneInv, NEW w \in Workers, worker[w].at \in Handling,
         [LedgerNext]_ledgerVars, NEW place \in {"call", "complete", "fail", "ack"}, Goto(w, place),
         place \in {"call", "complete"} => attempt'[worker[w].lease] # "none",
         place = "complete" => worker[w].task \in Smoke,
         UNCHANGED <<outboxVars, redisVars, historyVars, aged>>,
         crashes' = crashes, faults' \in 0 .. MaxFaults, ReceiptsAnswered'
  PROVE  PlaneInv'
<1> DEFINE s == worker[w]
<1>1. PICK r \in WorkerRecords :
        /\ worker' = [worker EXCEPT ![w] = r] /\ r.at = place
        /\ r.message = s.message /\ r.task = s.task /\ r.lease = s.lease
  BY GotoGood DEF Places
<1>2. worker'[w] = r
  BY <1>1 DEF PlaneInv, PlaneTypes
<1>3. /\ s.lease \in Executions /\ s.task \in Tasks
      /\ owner'[s.lease] = s.task /\ s.message \notin Invalid
  BY HandlerHasLease, LedgerGrows DEF PlaneInv
<1>4. GoodWorker(w)'
  BY <1>1, <1>2, <1>3 DEF GoodWorker, Handling
<1> QED
  BY <1>1, <1>4, Counted, LocalStep

LEMMA AttemptGood ==
  ASSUME PlaneInv, NEW w \in Workers, Attempt(w)
  PROVE  PlaneInv'
<1> DEFINE e == worker[w].lease
<1>1. worker[w].at \in Handling /\ e \in Executions
  BY HandlerHasLease DEF Attempt, Handling
<1>2. [LedgerNext]_ledgerVars /\ receipts' = receipts
  BY <1>1 DEF Attempt, RecordProviderAttempt, LedgerNext, ledgerVars
<1>3. /\ UNCHANGED <<outboxVars, redisVars, historyVars, aged>>
      /\ crashes' = crashes /\ faults' \in 0 .. MaxFaults
  BY Counted DEF Attempt
<1>4. ReceiptsAnswered'
  BY <1>2, <1>3, ReceiptsKept DEF historyVars
<1>5. CASE RecordProviderAttempt(e) /\ Goto(w, "call")
  <2>1. attempt'[e] # "none"
    BY <1>1, <1>5 DEF RecordProviderAttempt, PlaneInv, LedgerInv, LedgerTypeOK
  <2> QED
    BY <1>1, <1>2, <1>3, <1>4, <1>5, <2>1, HandlerMoves
<1>6. CASE Goto(w, "fail")
  BY <1>1, <1>2, <1>3, <1>4, <1>6, HandlerMoves
<1> QED
  BY <1>5, <1>6 DEF Attempt

LEMMA SkipCallGood ==
  ASSUME PlaneInv, NEW w \in Workers, SkipCall(w)
  PROVE  PlaneInv'
<1> DEFINE e == worker[w].lease
<1>1. worker[w].at = "call" /\ worker[w].at \in Handling
  BY DEF SkipCall, Handling
<1>2. e \in Executions /\ attempt[e] # "none"
  BY <1>1, HandlerHasLease, WorkerIsRecord DEF GoodWorker
<1>3. UNCHANGED ledgerVars /\ receipts' = receipts /\ attempt' = attempt
  BY DEF SkipCall, ledgerVars
<1>4. /\ UNCHANGED <<outboxVars, redisVars, historyVars, aged>>
      /\ crashes' = crashes /\ faults' \in 0 .. MaxFaults
  BY Counted DEF SkipCall
<1>5. ReceiptsAnswered'
  BY <1>3, <1>4, ReceiptsKept DEF historyVars
<1>6. \/ worker[w].task \in Smoke /\ Goto(w, "complete")
      \/ Goto(w, "fail")
  BY DEF SkipCall
<1> QED
  BY <1>1, <1>2, <1>3, <1>4, <1>5, <1>6, HandlerMoves

(* A receipt is written for the worker's own, answered execution.          *)
LEMMA CompleteGood ==
  ASSUME PlaneInv, NEW w \in Workers, Complete(w)
  PROVE  PlaneInv'
<1> DEFINE e == worker[w].lease
<1>1. worker[w].at = "complete" /\ worker[w].at \in Handling
  BY DEF Complete, Handling
<1>2. /\ e \in Executions /\ owner[e] = worker[w].task
      /\ e \in answered \/ owner[e] \in Smoke
  BY <1>1, HandlerHasLease, WorkerIsRecord DEF GoodWorker
<1>3. RecordCompletion(e) \/ UNCHANGED ledgerVars
  BY DEF Complete
<1>4. [LedgerNext]_ledgerVars /\ owner' = owner /\ receipts' \subseteq receipts \cup {e}
  BY <1>2, <1>3 DEF RecordCompletion, LedgerNext, ledgerVars
<1>5. /\ UNCHANGED <<outboxVars, redisVars, historyVars, aged>>
      /\ crashes' = crashes /\ faults' \in 0 .. MaxFaults
  BY Counted DEF Complete
<1>6. ReceiptsAnswered'
  BY <1>2, <1>4, <1>5 DEF PlaneInv, ReceiptsAnswered, historyVars
<1>7. PICK place \in {"ack", "fail"} : Goto(w, place)
  BY DEF Complete
<1> QED
  BY <1>1, <1>4, <1>5, <1>6, <1>7, HandlerMoves

LEMMA RecordFailureGood ==
  ASSUME PlaneInv, NEW w \in Workers, RecordFailure(w)
  PROVE  PlaneInv'
<1> DEFINE e == worker[w].lease
<1>1. worker[w].at \in Handling /\ e \in Executions
  BY HandlerHasLease DEF RecordFailure, Handling
<1>2. [LedgerNext]_ledgerVars /\ receipts' = receipts
  BY <1>1 DEF RecordFailure, RecordFailed, LedgerNext, ledgerVars
<1>3. /\ UNCHANGED <<outboxVars, redisVars, historyVars, aged>>
      /\ crashes' = crashes /\ faults' \in 0 .. MaxFaults
  BY Counted DEF RecordFailure
<1>4. ReceiptsAnswered'
  BY <1>2, <1>3, ReceiptsKept DEF historyVars
<1>5. CASE Goto(w, "ack")
  BY <1>1, <1>2, <1>3, <1>4, <1>5, HandlerMoves
<1>6. CASE Rest(w)
  BY <1>2, <1>3, <1>6, Counted, RestGood DEF Rest
<1> QED
  BY <1>5, <1>6 DEF RecordFailure

(* The request leaves the worker, or its answer arrives.                   *)
LEMMA ExchangeGood ==
  ASSUME PlaneInv, NEW w \in Workers, NEW place \in {"await", "complete"},
         worker[w].at \in Handling, attempt[worker[w].lease] # "none", Goto(w, place),
         called' = called \cup {worker[w].lease},
         answered' = (IF place = "complete" THEN answered \cup {worker[w].lease} ELSE answered),
         UNCHANGED <<ledgerVars, outboxVars, redisVars, produced, published, aged, crashes, faults>>
  PROVE  PlaneInv'
<1> DEFINE s == worker[w]
           e == s.lease
<1>1. e \in Executions /\ s.task \in Tasks /\ owner[e] = s.task /\ s.message \notin Invalid
  BY HandlerHasLease
<1>2. PICK r \in WorkerRecords :
        /\ worker' = [worker EXCEPT ![w] = r] /\ r.at = place
        /\ r.message = s.message /\ r.task = s.task /\ r.lease = e
  BY GotoGood DEF Places
<1>3. /\ owner' = owner /\ attempt' = attempt /\ receipts' = receipts
      /\ outbox' = outbox /\ claimant' = claimant
      /\ waiting' = waiting /\ processing' = processing /\ dead' = dead
      /\ produced' = produced /\ published' = published /\ aged' = aged
      /\ crashes' = crashes /\ faults' = faults
  BY DEF ledgerVars, outboxVars, redisVars
<1>4. called \subseteq called' /\ answered \subseteq answered' /\ e \in called'
  OBVIOUS
<1>5. PlaneTypes'
  <2>1. called' \in SUBSET Executions /\ answered' \in SUBSET called'
    BY <1>1 DEF PlaneInv, PlaneTypes
  <2> QED
    BY <1>2, <1>3, <2>1 DEF PlaneInv, PlaneTypes
<1>6. Grows
  BY <1>3, <1>4 DEF Grows, PlaneInv, PlaneTypes
<1>7. worker'[w] = r /\ \A v \in Workers : v # w => worker'[v] = worker[v]
  BY <1>2 DEF PlaneInv, PlaneTypes
<1>8. GoodWorker(w)'
  BY <1>1, <1>2, <1>3, <1>4, <1>7 DEF GoodWorker, Handling
<1>9. ReceiptsAnswered'
  BY <1>3, <1>4 DEF PlaneInv, ReceiptsAnswered
<1>10. InvalidIsKept'
  BY <1>3 DEF PlaneInv, InvalidIsKept, InRedis, InWaiting
<1>11. /\ \A f \in called' : f \in called \/ attempt'[f] # "none"
       /\ \A t \in Tasks : outbox'[t] = "delivered" => t \in published'
  BY <1>3 DEF PlaneInv, DeliveredWasPublished
<1> QED
  BY <1>5, <1>6, <1>7, <1>8, <1>9, <1>10, <1>11, Assembled

LEMMA CallGood ==
  ASSUME PlaneInv, NEW w \in Workers, Call(w)
  PROVE  PlaneInv'
<1>1. /\ worker[w].at = "call" /\ worker[w].at \in Handling
      /\ attempt[worker[w].lease] # "none"
  BY WorkerIsRecord DEF Call, Handling, GoodWorker
<1>2. CASE called' = called \cup {worker[w].lease} /\ Goto(w, "await")
  BY <1>1, <1>2, ExchangeGood DEF Call
<1>3. CASE Goto(w, "fail") /\ UNCHANGED called
  <2>1. [LedgerNext]_ledgerVars /\ receipts' = receipts
    BY DEF Call, ledgerVars
  <2>2. /\ UNCHANGED <<outboxVars, redisVars, historyVars, aged>>
        /\ crashes' = crashes /\ faults' \in 0 .. MaxFaults
    BY <1>3, Counted DEF Call, historyVars
  <2>3. ReceiptsAnswered'
    BY <2>1, <2>2, ReceiptsKept DEF historyVars
  <2> QED
    BY <1>1, <1>3, <2>1, <2>2, <2>3, HandlerMoves
<1> QED
  BY <1>2, <1>3 DEF Call

LEMMA AwaitGood ==
  ASSUME PlaneInv, NEW w \in Workers, Await(w)
  PROVE  PlaneInv'
<1>1. /\ worker[w].at = "await" /\ worker[w].at \in Handling
      /\ attempt[worker[w].lease] # "none" /\ worker[w].lease \in called
  BY WorkerIsRecord DEF Await, Handling, GoodWorker
<1>2. CASE answered' = answered \cup {worker[w].lease} /\ Goto(w, "complete")
  <2>1. called' = called \cup {worker[w].lease}
    BY <1>1 DEF Await
  <2> QED
    BY <1>1, <1>2, <2>1, ExchangeGood DEF Await
<1>3. CASE Goto(w, "fail") /\ UNCHANGED answered
  <2>1. [LedgerNext]_ledgerVars /\ receipts' = receipts
    BY DEF Await, ledgerVars
  <2>2. /\ UNCHANGED <<outboxVars, redisVars, historyVars, aged>>
        /\ crashes' = crashes /\ faults' \in 0 .. MaxFaults
    BY <1>3, Counted DEF Await, historyVars
  <2>3. ReceiptsAnswered'
    BY <2>1, <2>2, ReceiptsKept DEF historyVars
  <2> QED
    BY <1>1, <1>3, <2>1, <2>2, <2>3, HandlerMoves
<1> QED
  BY <1>2, <1>3 DEF Await

-----------------------------------------------------------------------------
(* The lists.                                                              *)

(* A step of the lists or the outbox; worker w goes on as r.               *)
LEMMA ListStep ==
  ASSUME PlaneInv, [LedgerNext]_ledgerVars, receipts' = receipts,
         NEW w \in Workers, NEW r \in WorkerRecords, worker' = [worker EXCEPT ![w] = r],
         GoodWorker(w)',
         outbox' \in [Tasks -> OutboxState], claimant' \in [Tasks -> Workers \cup {NoWorker}],
         waiting' \in Seq(Messages), processing' \in [Messages -> Nat], dead' \in [Messages -> Nat],
         \A m \in Messages : dead'[m] >= dead[m],
         aged' \in SUBSET Tasks, produced' \in SUBSET Messages,
         called' = called, answered' = answered,
         published \subseteq published', published' \in SUBSET Tasks,
         crashes' = crashes, faults' \in 0 .. MaxFaults,
         \A t \in Tasks : outbox'[t] = "delivered" => t \in published',
         InvalidIsKept'
  PROVE  PlaneInv'
<1>1. PlaneTypes'
  BY Counted DEF PlaneInv, PlaneTypes
<1>2. Grows
  BY DEF Grows
<1>3. ReceiptsAnswered'
  BY ReceiptsKept
<1>4. \A v \in Workers : v # w => worker'[v] = worker[v]
  BY DEF PlaneInv, PlaneTypes
<1>5. \A e \in called' : e \in called \/ attempt'[e] # "none"
  OBVIOUS
<1> QED
  BY <1>1, <1>2, <1>3, <1>4, <1>5, Assembled

(* Every kept invalid message is still kept.                               *)
LEMMA StillKept ==
  ASSUME PlaneInv, produced' = produced,
         \A m \in Invalid : InWaiting(m) => InWaiting(m)' \/ processing'[m] > 0,
         \A m \in Invalid : processing[m] > 0 =>
            processing'[m] > 0 \/ dead'[m] > 0 \/ InWaiting(m)',
         \A m \in Messages : dead'[m] >= dead[m], dead' \in [Messages -> Nat]
  PROVE  InvalidIsKept'
<1> SUFFICES ASSUME NEW m \in produced \cap Invalid
             PROVE  InWaiting(m)' \/ processing'[m] > 0 \/ dead'[m] > 0
  BY DEF InvalidIsKept, InRedis, Invalid
<1>1. InWaiting(m) \/ processing[m] > 0 \/ dead[m] > 0
  BY DEF PlaneInv, InvalidIsKept, InRedis, Invalid
<1>2. m \in Messages /\ dead[m] \in Nat /\ dead'[m] \in Nat
  BY InvalidIsUnnamed DEF PlaneInv, PlaneTypes
<1> QED
  BY <1>1, <1>2

(* No worker moves and no message does.                                    *)
LEMMA QuietStep ==
  ASSUME PlaneInv, [LedgerNext]_ledgerVars, receipts' = receipts,
         UNCHANGED <<claimant, redisVars, historyVars, worker, crashes, faults>>,
         outbox' \in [Tasks -> OutboxState], aged' \in SUBSET Tasks,
         \A t \in Tasks : outbox'[t] = "delivered" => outbox[t] = "delivered"
  PROVE  PlaneInv'
<1>1. /\ waiting' = waiting /\ processing' = processing /\ dead' = dead
      /\ produced' = produced /\ called' = called /\ answered' = answered /\ published' = published
  BY DEF redisVars, historyVars
<1>2. PlaneTypes'
  BY <1>1 DEF PlaneInv, PlaneTypes
<1>3. Grows
  BY <1>1 DEF Grows, PlaneInv, PlaneTypes
<1>4. \A w \in Workers : GoodWorker(w)'
  BY <1>2, <1>3, OthersGood
<1>5. ReceiptsAnswered'
  BY <1>1, ReceiptsKept
<1>6. LedgerInv'
  BY NextInv DEF PlaneInv
<1>7. CallIsOnRecord'
  BY <1>1, LedgerGrows DEF PlaneInv, PlaneTypes, CallIsOnRecord
<1>8. DeliveredWasPublished' /\ InvalidIsKept'
  BY <1>1 DEF PlaneInv, DeliveredWasPublished, InvalidIsKept, InRedis, InWaiting
<1> QED
  BY <1>2, <1>4, <1>5, <1>6, <1>7, <1>8 DEF PlaneInv

LEMMA EnvironmentGood ==
  ASSUME PlaneInv, NEW t \in Tasks,
         CreateTask(t) \/ LeaseRunsOut(t) \/ OutboxClaimLapses(t) \/ TaskAges(t)
  PROVE  PlaneInv'
<1>1. outbox \in [Tasks -> OutboxState] /\ aged \in SUBSET Tasks
  BY DEF PlaneInv, PlaneTypes
<1>2. CASE CreateTask(t)
  <2>1. [LedgerNext]_ledgerVars /\ receipts' = receipts
    BY <1>2 DEF CreateTask, RecordQueuedTask, LedgerNext
  <2>2. /\ outbox' \in [Tasks -> OutboxState]
        /\ \A u \in Tasks : outbox'[u] = "delivered" => outbox[u] = "delivered"
    BY <1>1, <1>2 DEF CreateTask, OutboxState
  <2> QED
    BY <1>1, <1>2, <2>1, <2>2, QuietStep DEF CreateTask
<1>3. CASE LeaseRunsOut(t)
  <2>1. [LedgerNext]_ledgerVars /\ receipts' = receipts
    BY <1>3 DEF LeaseRunsOut, LeaseExpires, LedgerNext
  <2> QED
    BY <1>1, <1>3, <2>1, QuietStep DEF LeaseRunsOut, outboxVars
<1>4. CASE OutboxClaimLapses(t)
  <2>1. [LedgerNext]_ledgerVars /\ receipts' = receipts
    BY <1>4 DEF OutboxClaimLapses, ledgerVars
  <2>2. /\ outbox' \in [Tasks -> OutboxState]
        /\ \A u \in Tasks : outbox'[u] = "delivered" => outbox[u] = "delivered"
    BY <1>1, <1>4 DEF OutboxClaimLapses, OutboxState
  <2> QED
    BY <1>1, <1>4, <2>1, <2>2, QuietStep DEF OutboxClaimLapses
<1>5. CASE TaskAges(t)
  <2>1. [LedgerNext]_ledgerVars /\ receipts' = receipts
    BY <1>5 DEF TaskAges, ledgerVars
  <2>2. aged' \in SUBSET Tasks
    BY <1>1, <1>5 DEF TaskAges
  <2> QED
    BY <1>1, <1>5, <2>1, <2>2, QuietStep DEF TaskAges, outboxVars
<1> QED
  BY <1>2, <1>3, <1>4, <1>5

LEMMA CleanupGood ==
  ASSUME PlaneInv, NEW w \in Workers, CleanupTerminalOutbox(w)
  PROVE  PlaneInv'
<1>1. [LedgerNext]_ledgerVars /\ receipts' = receipts
  BY DEF CleanupTerminalOutbox, ledgerVars
<1>2. /\ outbox' \in [Tasks -> OutboxState]
      /\ \A u \in Tasks : outbox'[u] = "delivered" => outbox[u] = "delivered"
  BY DEF CleanupTerminalOutbox, OutboxState, PlaneInv, PlaneTypes
<1> QED
  BY <1>1, <1>2, QuietStep DEF CleanupTerminalOutbox, PlaneInv, PlaneTypes

LEMMA ProducerPushGood ==
  ASSUME PlaneInv, NEW m \in Messages, ProducerPush(m)
  PROVE  PlaneInv'
<1>1. /\ produced' = produced \cup {m} /\ waiting' = Append(waiting, m)
      /\ [LedgerNext]_ledgerVars /\ receipts' = receipts /\ UNCHANGED ledgerVars
      /\ outbox' = outbox /\ claimant' = claimant /\ processing' = processing /\ dead' = dead
      /\ called' = called /\ answered' = answered /\ published' = published
      /\ aged' = aged /\ worker' = worker /\ crashes' = crashes /\ faults' = faults
  BY DEF ProducerPush, ledgerVars, outboxVars
<1>2. waiting \in Seq(Messages)
  BY DEF PlaneInv, PlaneTypes
<1>3. /\ waiting' \in Seq(Messages) /\ InWaiting(m)'
      /\ \A x \in Messages : InWaiting(x) => InWaiting(x)'
  BY <1>1, <1>2, AppendKeepsWaiting
<1>4. PlaneTypes'
  BY <1>1, <1>3 DEF PlaneInv, PlaneTypes
<1>5. Grows
  BY <1>1 DEF Grows, PlaneInv, PlaneTypes
<1>6. \A w \in Workers : GoodWorker(w)'
  BY <1>1, <1>4, <1>5, OthersGood
<1>7. ReceiptsAnswered' /\ LedgerInv'
  BY <1>1, ReceiptsKept, NextInv DEF PlaneInv
<1>8. CallIsOnRecord' /\ DeliveredWasPublished'
  BY <1>1 DEF PlaneInv, CallIsOnRecord, DeliveredWasPublished, ledgerVars
<1>9. InvalidIsKept'
  <2> SUFFICES ASSUME NEW x \in produced' \cap Invalid
               PROVE  InWaiting(x)' \/ processing'[x] > 0 \/ dead'[x] > 0
    BY DEF InvalidIsKept, InRedis, Invalid
  <2>1. CASE x = m
    BY <1>3, <2>1
  <2>2. CASE x # m
    <3>1. InWaiting(x) \/ processing[x] > 0 \/ dead[x] > 0
      BY <1>1, <2>2 DEF PlaneInv, InvalidIsKept, InRedis, Invalid
    <3> QED
      BY <1>1, <1>3, <3>1, InvalidIsUnnamed
  <2> QED
    BY <2>1, <2>2
<1> QED
  BY <1>4, <1>6, <1>7, <1>8, <1>9 DEF PlaneInv

LEMMA ClaimPendingOutboxGood ==
  ASSUME PlaneInv, NEW w \in Workers, ClaimPendingOutbox(w)
  PROVE  PlaneInv'
<1> DEFINE todo == [m \in Messages |-> IF m \in Dispatchable THEN 1 ELSE 0]
           r == [worker[w] EXCEPT !.at = "publish", !.todo = todo]
<1>1. todo \in [Messages -> Nat]
  OBVIOUS
<1> HIDE DEF todo
<1>2. r \in WorkerRecords /\ r.at = "publish"
  BY <1>1, WorkerIsRecord DEF WorkerRecords, Places
<1>3. worker' = [worker EXCEPT ![w] = r]
  BY DEF ClaimPendingOutbox, todo
<1> HIDE DEF r
<1>4. worker'[w] = r
  BY <1>3 DEF PlaneInv, PlaneTypes
<1>5. GoodWorker(w)'
  BY <1>2, <1>4 DEF GoodWorker, Handling
<1>6. /\ [LedgerNext]_ledgerVars /\ receipts' = receipts
      /\ waiting' = waiting /\ processing' = processing /\ dead' = dead
      /\ produced' = produced /\ called' = called /\ answered' = answered
      /\ published' = published /\ aged' = aged /\ crashes' = crashes /\ faults' = faults
  BY DEF ClaimPendingOutbox, ledgerVars, redisVars, historyVars
<1>7. /\ outbox' \in [Tasks -> OutboxState] /\ claimant' \in [Tasks -> Workers \cup {NoWorker}]
      /\ \A t \in Tasks : outbox'[t] = "delivered" => outbox[t] = "delivered"
  BY DEF ClaimPendingOutbox, PlaneInv, PlaneTypes, OutboxState
<1>8. /\ waiting' \in Seq(Messages) /\ processing' \in [Messages -> Nat]
      /\ dead' \in [Messages -> Nat] /\ aged' \in SUBSET Tasks /\ produced' \in SUBSET Messages
      /\ published' \in SUBSET Tasks /\ faults' \in 0 .. MaxFaults
      /\ \A m \in Messages : dead'[m] >= dead[m]
  BY <1>6 DEF PlaneInv, PlaneTypes
<1>9. \A t \in Tasks : outbox'[t] = "delivered" => t \in published'
  BY <1>6, <1>7 DEF PlaneInv, DeliveredWasPublished
<1>10. InvalidIsKept'
  BY <1>6 DEF PlaneInv, InvalidIsKept, InRedis, InWaiting
<1> QED
  BY <1>2, <1>3, <1>5, <1>6, <1>7, <1>8, <1>9, <1>10, ListStep

(* Messages move between the lists; no row of the database changes.        *)
LEMMA ListsMove ==
  ASSUME PlaneInv, UNCHANGED <<ledgerVars, outboxVars, produced, called, answered, aged, crashes>>,
         published \subseteq published', published' \in SUBSET Tasks,
         NEW w \in Workers, NEW r \in WorkerRecords, worker' = [worker EXCEPT ![w] = r],
         GoodWorker(w)', waiting' \in Seq(Messages), processing' \in [Messages -> Nat],
         dead' \in [Messages -> Nat], \A m \in Messages : dead'[m] >= dead[m],
         faults' \in 0 .. MaxFaults, InvalidIsKept'
  PROVE  PlaneInv'
<1>1. /\ [LedgerNext]_ledgerVars /\ receipts' = receipts
      /\ outbox' = outbox /\ claimant' = claimant
  BY DEF ledgerVars, outboxVars
<1>2. /\ outbox' \in [Tasks -> OutboxState] /\ claimant' \in [Tasks -> Workers \cup {NoWorker}]
      /\ aged' \in SUBSET Tasks /\ produced' \in SUBSET Messages
      /\ called' = called /\ answered' = answered /\ crashes' = crashes
  BY <1>1 DEF PlaneInv, PlaneTypes
<1>3. \A t \in Tasks : outbox'[t] = "delivered" => t \in published'
  BY <1>1 DEF PlaneInv, DeliveredWasPublished
<1> QED
  BY <1>1, <1>2, <1>3, ListStep

LEMMA ListTypes ==
  ASSUME PlaneInv
  PROVE  /\ waiting \in Seq(Messages) /\ processing \in [Messages -> Nat]
         /\ dead \in [Messages -> Nat] /\ published \in SUBSET Tasks
         /\ \A m \in Messages : dead[m] >= dead[m]
  BY DEF PlaneInv, PlaneTypes

LEMMA PublishGood ==
  ASSUME PlaneInv, NEW w \in Workers, NEW t \in Tasks, Publish(w, t)
  PROVE  PlaneInv'
<1> DEFINE r == [worker[w] EXCEPT !.at = "mark", !.message = t]
<1>1. t \in Named /\ t \in Messages
  BY NamedIsMessage DEF Publish
<1>2. /\ UNCHANGED <<ledgerVars, outboxVars, produced, called, answered, aged, crashes>>
      /\ processing' = processing /\ dead' = dead /\ produced' = produced
      /\ faults' \in 0 .. MaxFaults
  BY Counted DEF Publish
<1>3. CASE /\ waiting' = Append(waiting, t) /\ published' = published \cup {t}
           /\ worker' = [worker EXCEPT ![w].at = "mark", ![w].message = t]
  <2>1. r \in WorkerRecords /\ r.at = "mark" /\ r.message = t
    BY <1>1, WorkerIsRecord DEF WorkerRecords, Places
  <2>2. worker' = [worker EXCEPT ![w] = r]
    BY <1>3
  <2> HIDE DEF r
  <2>3. worker'[w] = r
    BY <2>2 DEF PlaneInv, PlaneTypes
  <2>4. t \notin Invalid
    BY <1>1, InvalidIsUnnamed
  <2>5. GoodWorker(w)'
    BY <1>1, <1>3, <2>1, <2>3, <2>4 DEF GoodWorker, Handling
  <2>6. /\ waiting' \in Seq(Messages) /\ \A x \in Messages : InWaiting(x) => InWaiting(x)'
    BY <1>1, <1>3, ListTypes, AppendKeepsWaiting
  <2>7. InvalidIsKept'
    BY <1>2, <2>6, ListTypes, InvalidIsUnnamed, StillKept
  <2>8. published \subseteq published' /\ published' \in SUBSET Tasks
    BY <1>3, ListTypes
  <2> QED
    BY <1>2, <2>1, <2>2, <2>5, <2>6, <2>7, <2>8, ListTypes, ListsMove
<1>4. CASE DropItem(w, t, "publish") /\ UNCHANGED <<waiting, published>>
  <2>1. [LedgerNext]_ledgerVars /\ receipts' = receipts
    BY <1>2 DEF ledgerVars
  <2>2. UNCHANGED <<outboxVars, redisVars, historyVars, aged>> /\ crashes' = crashes
    BY <1>2, <1>4 DEF redisVars, historyVars
  <2> QED
    BY <1>2, <1>4, <2>1, <2>2, DroppedIsRecord, LookingGood DEF Places
<1> QED
  BY <1>3, <1>4 DEF Publish

LEMMA MarkOutboxDeliveredGood ==
  ASSUME PlaneInv, NEW w \in Workers, MarkOutboxDelivered(w)
  PROVE  PlaneInv'
<1> DEFINE t == worker[w].message
<1>1. t \in published
  BY WorkerIsRecord DEF MarkOutboxDelivered, GoodWorker
<1>2. /\ [LedgerNext]_ledgerVars /\ receipts' = receipts
      /\ waiting' = waiting /\ processing' = processing /\ dead' = dead
      /\ produced' = produced /\ called' = called /\ answered' = answered
      /\ published' = published /\ aged' = aged /\ crashes' = crashes
      /\ faults' \in 0 .. MaxFaults
  BY Counted DEF MarkOutboxDelivered, ledgerVars, redisVars, historyVars
<1>3. PICK r \in WorkerRecords : worker' = [worker EXCEPT ![w] = r] /\ r.at = "publish"
  BY DroppedIsRecord DEF MarkOutboxDelivered, Places
<1>4. worker'[w] = r
  BY <1>3 DEF PlaneInv, PlaneTypes
<1>5. GoodWorker(w)'
  BY <1>3, <1>4 DEF GoodWorker, Handling
<1>6. /\ outbox' = outbox \/ outbox' = [outbox EXCEPT ![t] = "delivered"]
      /\ claimant' = claimant \/ claimant' = [claimant EXCEPT ![t] = NoWorker]
  BY DEF MarkOutboxDelivered, outboxVars
<1>7. /\ outbox' \in [Tasks -> OutboxState] /\ claimant' \in [Tasks -> Workers \cup {NoWorker}]
  BY <1>6 DEF PlaneInv, PlaneTypes, OutboxState
<1>8. \A u \in Tasks : outbox'[u] = "delivered" => u \in published'
  BY <1>1, <1>2, <1>6 DEF PlaneInv, PlaneTypes, DeliveredWasPublished
<1>9. /\ waiting' \in Seq(Messages) /\ processing' \in [Messages -> Nat]
      /\ dead' \in [Messages -> Nat] /\ aged' \in SUBSET Tasks /\ produced' \in SUBSET Messages
      /\ published' \in SUBSET Tasks /\ \A m \in Messages : dead'[m] >= dead[m]
  BY <1>2 DEF PlaneInv, PlaneTypes
<1>10. InvalidIsKept'
  BY <1>2 DEF PlaneInv, InvalidIsKept, InRedis, InWaiting
<1> QED
  BY <1>2, <1>3, <1>5, <1>7, <1>8, <1>9, <1>10, ListStep

LEMMA RecoverInvalidGood ==
  ASSUME PlaneInv, NEW w \in Workers, NEW m \in Messages, RecoverInvalid(w, m)
  PROVE  PlaneInv'
<1>1. /\ UNCHANGED <<ledgerVars, outboxVars, produced, called, answered, published, aged, crashes>>
      /\ waiting' = waiting /\ faults' \in 0 .. MaxFaults
  BY Counted DEF RecoverInvalid, historyVars
<1>2. CASE DropItem(w, m, "recover")
           /\ \/ processing' = Remove(processing, m) /\ dead' = Add(dead, m)
              \/ UNCHANGED <<processing, dead>>
  <2>1. PICK r \in WorkerRecords : worker' = [worker EXCEPT ![w] = r] /\ r.at = "recover"
    BY <1>2, DroppedIsRecord DEF Places
  <2>2. worker'[w] = r
    BY <2>1 DEF PlaneInv, PlaneTypes
  <2>3. GoodWorker(w)'
    BY <2>1, <2>2 DEF GoodWorker, Handling
  <2>4. /\ processing' \in [Messages -> Nat] /\ dead' \in [Messages -> Nat]
        /\ \A x \in Messages : dead'[x] >= dead[x]
        /\ \A x \in Messages : processing'[x] = processing[x] \/ (x = m /\ dead'[m] > 0)
    <3>1. CASE processing' = Remove(processing, m) /\ dead' = Add(dead, m)
      <4>1. /\ processing' \in [Messages -> Nat]
            /\ \A x \in Messages : x # m => processing'[x] = processing[x]
        BY <3>1, ListTypes, CopiesAreBags
      <4>2. /\ dead' \in [Messages -> Nat] /\ dead'[m] > 0
            /\ \A x \in Messages : dead'[x] >= dead[x]
        BY <3>1, ListTypes, CopiesAreBags
      <4> QED
        BY <4>1, <4>2
    <3>2. CASE UNCHANGED <<processing, dead>>
      BY <3>2, ListTypes
    <3> QED
      BY <1>2, <3>1, <3>2
  <2>5. InvalidIsKept'
    BY <1>1, <2>4, InvalidIsUnnamed, StillKept DEF InWaiting
  <2> QED
    BY <1>1, <2>1, <2>3, <2>4, <2>5, ListTypes, ListsMove
<1>3. CASE worker' = [worker EXCEPT ![w].todo = NoCopies] /\ UNCHANGED <<processing, dead>>
  <2> DEFINE r == [worker[w] EXCEPT !.todo = NoCopies]
  <2>1. r \in WorkerRecords /\ r.at = "recover"
    BY WorkerIsRecord, NoCopiesIsBag DEF WorkerRecords, RecoverInvalid
  <2>2. worker' = [worker EXCEPT ![w] = r]
    BY <1>3
  <2> HIDE DEF r
  <2>3. [LedgerNext]_ledgerVars /\ receipts' = receipts
    BY <1>1 DEF ledgerVars
  <2>4. UNCHANGED <<outboxVars, redisVars, historyVars, aged>> /\ crashes' = crashes
    BY <1>1, <1>3 DEF redisVars, historyVars
  <2> QED
    BY <1>1, <2>1, <2>2, <2>3, <2>4, LookingGood
<1> QED
  BY <1>2, <1>3 DEF RecoverInvalid

(* The copy of a named message moves or goes; invalid ones stay.           *)
LEMMA RepairGood ==
  ASSUME PlaneInv, NEW w \in Workers, RequeueStaleDelivery(w) \/ AcknowledgeProcessingDelivery(w)
  PROVE  PlaneInv'
<1> DEFINE m == worker[w].message
<1>1. m \in Named /\ m \in Messages /\ m \notin Invalid
  BY WorkerIsRecord, NamedIsMessage, InvalidIsUnnamed
     DEF RequeueStaleDelivery, AcknowledgeProcessingDelivery, GoodWorker
<1>2. /\ UNCHANGED <<ledgerVars, outboxVars, produced, called, answered, published, aged, crashes>>
      /\ dead' = dead /\ produced' = produced /\ published' = published
      /\ faults' \in 0 .. MaxFaults
  BY Counted DEF RequeueStaleDelivery, AcknowledgeProcessingDelivery, historyVars
<1>3. PICK r \in WorkerRecords : worker' = [worker EXCEPT ![w] = r] /\ r.at = "recover"
  BY DroppedIsRecord DEF RequeueStaleDelivery, AcknowledgeProcessingDelivery, Places
<1>4. worker'[w] = r
  BY <1>3 DEF PlaneInv, PlaneTypes
<1>5. GoodWorker(w)'
  BY <1>3, <1>4 DEF GoodWorker, Handling
<1>6. /\ processing' = processing \/ processing' = Remove(processing, m)
      /\ waiting' = waiting \/ waiting' = <<m>> \o waiting
  BY DEF RequeueStaleDelivery, AcknowledgeProcessingDelivery
<1>7. /\ processing' \in [Messages -> Nat]
      /\ \A x \in Messages : x # m => processing'[x] = processing[x]
  <2>1. CASE processing' = processing
    BY <2>1, ListTypes
  <2>2. CASE processing' = Remove(processing, m)
    BY <2>2, ListTypes, CopiesAreBags
  <2> QED
    BY <1>6, <2>1, <2>2
<1>8. /\ waiting' \in Seq(Messages)
      /\ \A x \in Messages : InWaiting(x) => InWaiting(x)'
  <2>1. CASE waiting' = waiting
    BY <2>1, ListTypes DEF InWaiting
  <2>2. CASE waiting' = <<m>> \o waiting
    BY <1>1, <2>2, ListTypes, PrependKeepsWaiting
  <2> QED
    BY <1>6, <2>1, <2>2
<1>9. InvalidIsKept'
  BY <1>1, <1>2, <1>7, <1>8, ListTypes, InvalidIsUnnamed, StillKept
<1> QED
  BY <1>2, <1>3, <1>5, <1>7, <1>8, <1>9, ListTypes, ListsMove

LEMMA ReceiveGood ==
  ASSUME PlaneInv, NEW w \in Workers, Receive(w)
  PROVE  PlaneInv'
<1> DEFINE s == worker[w]
           m == Head(waiting)
<1>1. /\ waiting # <<>> /\ waiting' = Tail(waiting) /\ processing' = Add(processing, m)
      /\ UNCHANGED <<ledgerVars, outboxVars, produced, called, answered, published, aged, crashes>>
      /\ dead' = dead /\ produced' = produced /\ published' = published
      /\ faults' \in 0 .. MaxFaults
  BY Counted DEF Receive, historyVars
<1>2. /\ waiting' \in Seq(Messages) /\ m \in Messages
      /\ \A x \in Messages : InWaiting(x) => InWaiting(x)' \/ x = m
  BY <1>1, ListTypes, TailKeepsWaiting
<1>3. /\ processing' \in [Messages -> Nat] /\ processing'[m] > 0
      /\ \A x \in Messages : processing'[x] >= processing[x]
  BY <1>1, <1>2, ListTypes, CopiesAreBags
<1>4. s \in WorkerRecords /\ s.task = NoTask
  BY WorkerIsRecord DEF Receive, GoodWorker
<1>5. \/ \E t \in Tasks : /\ m \notin Invalid
                          /\ worker' = [worker EXCEPT ![w].at = "claim", ![w].message = m, ![w].task = t]
      \/ \E place \in {"claim", "deadletter"} :
           worker' = [worker EXCEPT ![w].at = place, ![w].message = m]
  <2>1. CASE /\ m \in Named
             /\ worker' = [worker EXCEPT ![w].at = "claim", ![w].message = m, ![w].task = m]
    BY <2>1, NamedIsMessage, InvalidIsUnnamed
  <2>2. CASE /\ m \in Nameless
             /\ \E t \in Generated :
                  worker' = [worker EXCEPT ![w].at = "claim", ![w].message = m, ![w].task = t]
    BY <2>2, ControlPlaneAssumption, InvalidIsUnnamed
  <2>3. CASE \E place \in {"claim", "deadletter"} :
               worker' = [worker EXCEPT ![w].at = place, ![w].message = m]
    BY <2>3
  <2> QED
    BY <2>1, <2>2, <2>3 DEF Receive
<1> HIDE DEF m
<1>6. PICK r \in WorkerRecords : worker' = [worker EXCEPT ![w] = r] /\ r.at \in {"claim", "deadletter"}
                                 /\ (r.message \in Invalid => r.task = NoTask)
  <2>1. ASSUME NEW t \in Tasks, m \notin Invalid,
               worker' = [worker EXCEPT ![w].at = "claim", ![w].message = m, ![w].task = t]
        PROVE  \E r \in WorkerRecords : /\ worker' = [worker EXCEPT ![w] = r]
                                        /\ r.at \in {"claim", "deadletter"}
                                        /\ (r.message \in Invalid => r.task = NoTask)
    <3> DEFINE r == [s EXCEPT !.at = "claim", !.message = m, !.task = t]
    <3>1. r \in WorkerRecords /\ r.at = "claim" /\ r.message = m
      BY <1>2, <1>4 DEF WorkerRecords, Places
    <3>2. worker' = [worker EXCEPT ![w] = r]
      BY <2>1
    <3> HIDE DEF r
    <3> QED
      BY <2>1, <3>1, <3>2
  <2>2. ASSUME NEW place \in {"claim", "deadletter"},
               worker' = [worker EXCEPT ![w].at = place, ![w].message = m]
        PROVE  \E r \in WorkerRecords : /\ worker' = [worker EXCEPT ![w] = r]
                                        /\ r.at \in {"claim", "deadletter"}
                                        /\ (r.message \in Invalid => r.task = NoTask)
    <3> DEFINE r == [s EXCEPT !.at = place, !.message = m]
    <3>1. r \in WorkerRecords /\ r.at = place /\ r.task = NoTask
      BY <1>2, <1>4 DEF WorkerRecords, Places
    <3>2. worker' = [worker EXCEPT ![w] = r]
      BY <2>2
    <3> HIDE DEF r
    <3> QED
      BY <3>1, <3>2
  <2> QED
    BY <1>5, <2>1, <2>2 DEF m
<1>7. worker'[w] = r
  BY <1>6 DEF PlaneInv, PlaneTypes
<1>8. GoodWorker(w)'
  BY <1>6, <1>7 DEF GoodWorker, Handling
<1>9. InvalidIsKept'
  <2>1. \A x \in Messages : InWaiting(x) => InWaiting(x)' \/ processing'[x] > 0
    BY <1>2, <1>3
  <2>2. \A x \in Messages : processing[x] > 0 => processing'[x] > 0
    BY <1>3, ListTypes
  <2> QED
    BY <1>1, <2>1, <2>2, ListTypes, InvalidIsUnnamed, StillKept
<1> QED
  BY <1>1, <1>2, <1>3, <1>6, <1>8, <1>9, ListTypes, ListsMove

LEMMA DeadLetterGood ==
  ASSUME PlaneInv, NEW w \in Workers, DeadLetter(w)
  PROVE  PlaneInv'
<1> DEFINE m == worker[w].message
<1>1. /\ UNCHANGED <<ledgerVars, outboxVars, produced, called, answered, published, aged, crashes>>
      /\ waiting' = waiting /\ processing' = processing /\ produced' = produced
      /\ published' = published /\ dead' = Add(dead, m) /\ faults' \in 0 .. MaxFaults
  BY Counted DEF DeadLetter, historyVars
<1>2. PICK r \in WorkerRecords : worker' = [worker EXCEPT ![w] = r] /\ r.at = "ack" /\ r.message = m
  BY GotoGood DEF DeadLetter, Places
<1>3. worker'[w] = r
  BY <1>2 DEF PlaneInv, PlaneTypes
<1>4. /\ dead' \in [Messages -> Nat] /\ (m \in Messages => dead'[m] > 0)
      /\ \A x \in Messages : dead'[x] >= dead[x]
  BY <1>1, ListTypes, CopiesAreBags
<1>5. GoodWorker(w)'
  BY <1>2, <1>3, <1>4, InvalidIsUnnamed DEF GoodWorker, Handling
<1>6. InvalidIsKept'
  BY <1>1, <1>4, StillKept DEF InWaiting
<1> QED
  BY <1>1, <1>2, <1>4, <1>5, <1>6, ListTypes, ListsMove

LEMMA AcknowledgeGood ==
  ASSUME PlaneInv, NEW w \in Workers, Acknowledge(w)
  PROVE  PlaneInv'
<1> DEFINE m == worker[w].message
<1>1. /\ UNCHANGED <<ledgerVars, outboxVars, produced, called, answered, published, aged, crashes>>
      /\ waiting' = waiting /\ dead' = dead /\ produced' = produced /\ published' = published
      /\ processing' = Remove(processing, m) /\ faults' \in 0 .. MaxFaults
  BY Counted DEF Acknowledge, historyVars
<1>2. worker' = [worker EXCEPT ![w] = Resting("loop")]
  BY DEF Acknowledge, Rest
<1>3. GoodWorker(w)' /\ Resting("loop") \in WorkerRecords
  BY <1>2, RestedIsGood DEF PlaneInv
<1>4. m \in Invalid => dead[m] > 0
  BY WorkerIsRecord DEF Acknowledge, GoodWorker
<1>5. /\ processing' \in [Messages -> Nat]
      /\ \A x \in Messages : x # m => processing'[x] = processing[x]
  BY <1>1, ListTypes, CopiesAreBags
<1>6. InvalidIsKept'
  BY <1>1, <1>4, <1>5, ListTypes, InvalidIsUnnamed, StillKept DEF InWaiting
<1> QED
  BY <1>1, <1>2, <1>3, <1>5, <1>6, ListTypes, ListsMove

-----------------------------------------------------------------------------
(* Every step.                                                             *)

LEMMA PlaneInit == Init => PlaneInv
<1> SUFFICES ASSUME Init PROVE PlaneInv
  OBVIOUS
<1>1. LedgerInv
  BY InitInv DEF Init
<1>2. PlaneTypes
  <2>1. worker \in [Workers -> WorkerRecords]
    BY RestingIsGood DEF Init
  <2>2. /\ outbox \in [Tasks -> OutboxState] /\ claimant \in [Tasks -> Workers \cup {NoWorker}]
        /\ waiting \in Seq(Messages) /\ processing \in [Messages -> Nat] /\ dead \in [Messages -> Nat]
    BY NoCopiesIsBag DEF Init, OutboxState
  <2>3. crashes \in 0 .. MaxCrashes /\ faults \in 0 .. MaxFaults
    BY ControlPlaneAssumption DEF Init
  <2> QED
    BY <2>1, <2>2, <2>3 DEF Init, PlaneTypes
<1>3. ASSUME NEW w \in Workers PROVE GoodWorker(w)
  <2>1. worker[w] = Resting("loop")
    BY DEF Init
  <2>2. NoMessage \notin Invalid
    BY InvalidIsUnnamed, ControlPlaneAssumption
  <2> QED
    BY <2>1, <2>2, RestingIsGood DEF GoodWorker, Handling
<1>4. ReceiptsAnswered /\ CallIsOnRecord /\ DeliveredWasPublished /\ InvalidIsKept
  BY DEF Init, LedgerInit, ReceiptsAnswered, CallIsOnRecord, DeliveredWasPublished, InvalidIsKept
<1> QED
  BY <1>1, <1>2, <1>3, <1>4 DEF PlaneInv

LEMMA PlaneStep == PlaneInv /\ [Next]_vars => PlaneInv'
<1> SUFFICES ASSUME PlaneInv, [Next]_vars PROVE PlaneInv'
  OBVIOUS
<1>1. ASSUME NEW w \in Workers, Dispatch(w) \/ CleanupTerminalOutbox(w) PROVE PlaneInv'
  BY <1>1, ClaimPendingOutboxGood, PublishGood, StartsOverGood, MarkOutboxDeliveredGood, CleanupGood
     DEF Dispatch
<1>2. ASSUME NEW w \in Workers, StartRecovery(w) \/ Recover(w) PROVE PlaneInv'
  BY <1>2, StartRecoveryGood, RecoverInvalidGood, RecoverRowGood, RepairGood, ReapReadsGood,
     ReapRowsGood DEF Recover
<1>3. ASSUME NEW w \in Workers, Receive(w) \/ Handle(w) PROVE PlaneInv'
  BY <1>3, ReceiveGood, DeadLetterGood, ClaimGood, AttemptGood, CallGood, AwaitGood, SkipCallGood,
     CompleteGood, RecordFailureGood, AcknowledgeGood DEF Handle
<1>4. ASSUME NEW w \in Workers, Crash(w) \/ Restart(w) PROVE PlaneInv'
  BY <1>4, StartsOverGood
<1>5. ASSUME UNCHANGED vars PROVE PlaneInv'
  <2>1. /\ UNCHANGED <<ledgerVars, claimant, redisVars, historyVars, worker, crashes, faults>>
        /\ outbox' = outbox /\ aged' = aged
    BY <1>5 DEF vars, outboxVars
  <2>2. receipts' = receipts
    BY <2>1 DEF ledgerVars
  <2>3. outbox' \in [Tasks -> OutboxState] /\ aged' \in SUBSET Tasks
    BY <2>1 DEF PlaneInv, PlaneTypes
  <2> QED
    BY <2>1, <2>2, <2>3, QuietStep
<1>6. ASSUME NEW w \in Workers, ReceiveTimesOut(w) PROVE PlaneInv'
  BY <1>5, <1>6 DEF ReceiveTimesOut
<1> QED
  BY <1>1, <1>2, <1>3, <1>4, <1>5, <1>6, EnvironmentGood, ProducerPushGood DEF Next

(* Whatever workers, clocks and producers do, the rows see a transaction   *)
(* of the ledger or nothing.                                               *)
LEMMA StepIsTransaction == PlaneInv /\ [Next]_vars => [LedgerNext]_ledgerVars
<1> SUFFICES ASSUME PlaneInv, [Next]_vars PROVE [LedgerNext]_ledgerVars
  OBVIOUS
<1>1. ASSUME NEW t \in Tasks,
             CreateTask(t) \/ LeaseRunsOut(t) \/ OutboxClaimLapses(t) \/ TaskAges(t)
      PROVE  [LedgerNext]_ledgerVars
  BY <1>1 DEF CreateTask, LeaseRunsOut, OutboxClaimLapses, TaskAges, LedgerNext
<1>2. ASSUME NEW m \in Messages, ProducerPush(m) PROVE [LedgerNext]_ledgerVars
  BY <1>2 DEF ProducerPush
<1>3. ASSUME NEW w \in Workers, Dispatch(w) \/ CleanupTerminalOutbox(w) \/ StartRecovery(w)
      PROVE  [LedgerNext]_ledgerVars
  BY <1>3 DEF Dispatch, ClaimPendingOutbox, Publish, PublishDone, MarkOutboxDelivered,
              CleanupTerminalOutbox, StartRecovery
<1>4. ASSUME NEW w \in Workers, Recover(w) PROVE [LedgerNext]_ledgerVars
  <2>1. ASSUME NEW m \in Messages, RecoverInvalid(w, m) PROVE [LedgerNext]_ledgerVars
    BY <2>1 DEF RecoverInvalid
  <2>2. ASSUME NEW m \in Messages, RecoverRow(w, m) PROVE [LedgerNext]_ledgerVars
    BY <2>2, NamedIsMessage DEF RecoverRow, LedgerNext
  <2>3. CASE ReapRows(w)
    <3>1. {t \in aged : status[t] = "queued" /\ t \notin worker[w].seen} \in SUBSET Tasks
      BY DEF PlaneInv, PlaneTypes
    <3> QED
      BY <2>3, <3>1 DEF ReapRows, LedgerNext
  <2>4. CASE \/ RequeueStaleDelivery(w) \/ AcknowledgeProcessingDelivery(w)
             \/ ReapReadWaiting(w) \/ ReapReadProcessing(w)
    BY <2>4 DEF RequeueStaleDelivery, AcknowledgeProcessingDelivery, ReapReadWaiting,
                ReapReadProcessing
  <2> QED
    BY <1>4, <2>1, <2>2, <2>3, <2>4 DEF Recover
<1>5. ASSUME NEW w \in Workers, Handle(w) PROVE [LedgerNext]_ledgerVars
  <2>1. CASE Claim(w)
    <3>1. worker[w].task # NoTask => worker[w].task \in Tasks
      BY WorkerIsRecord DEF WorkerRecords
    <3>2. Unused # {} => (CHOOSE x \in Unused : TRUE) \in Executions
      BY DEF Unused
    <3> QED
      BY <2>1, <3>1, <3>2 DEF Claim, LedgerNext
  <2>2. CASE Attempt(w) \/ Complete(w) \/ RecordFailure(w)
    <3>1. worker[w].lease \in Executions
      BY <2>2, HandlerHasLease DEF Attempt, Complete, RecordFailure, Handling
    <3> QED
      BY <2>2, <3>1 DEF Attempt, Complete, RecordFailure, LedgerNext
  <2>3. CASE DeadLetter(w) \/ Call(w) \/ Await(w) \/ SkipCall(w) \/ Acknowledge(w)
    BY <2>3 DEF DeadLetter, Call, Await, SkipCall, Acknowledge
  <2> QED
    BY <1>5, <2>1, <2>2, <2>3 DEF Handle
<1>6. ASSUME NEW w \in Workers, Receive(w) \/ Crash(w) \/ Restart(w)
      PROVE  [LedgerNext]_ledgerVars
  BY <1>6 DEF Receive, Crash, Restart
<1>7. ASSUME UNCHANGED vars PROVE [LedgerNext]_ledgerVars
  BY <1>7 DEF vars
<1>8. ASSUME NEW w \in Workers, ReceiveTimesOut(w) PROVE [LedgerNext]_ledgerVars
  BY <1>7, <1>8 DEF ReceiveTimesOut
<1> QED
  BY <1>1, <1>2, <1>3, <1>4, <1>5, <1>6, <1>7, <1>8 DEF Next

(* What each worker relies on holds at every place of its loop.            *)
THEOREM PlaneInvariant == Spec => []PlaneInv
  BY PlaneInit, PlaneStep, PTL DEF Spec

(* No request reaches a provider before its attempt is on record, for any  *)
(* number of workers, crashes, failed calls and stalls.                    *)
THEOREM CallsAreOnRecord == Spec => []CallIsOnRecord
<1>1. PlaneInv => CallIsOnRecord
  BY DEF PlaneInv
<1> QED
  BY <1>1, PlaneInvariant, PTL

(* Successes and receipts rest on the answer to that very execution.       *)
THEOREM SuccessesWereAnswered == Spec => []SuccessWasAnswered
<1>1. PlaneInv => SuccessWasAnswered
  <2> SUFFICES ASSUME PlaneInv PROVE SuccessWasAnswered
    OBVIOUS
  <2>1. \A e \in receipts : owner[e] \notin Smoke => e \in answered
    BY DEF PlaneInv, ReceiptsAnswered
  <2>2. ASSUME NEW t \in Tasks \ Smoke, status[t] = "succeeded"
        PROVE  execution[t] \in answered
    <3>1. execution[t] \in receipts
      BY <2>2 DEF PlaneInv, LedgerInv, ReceiptBacksResult
    <3>2. execution[t] \in Executions
      BY <2>2 DEF PlaneInv, LedgerInv, RowsAgree
    <3>3. owner[execution[t]] = t
      BY <3>2, LedgerAssumption DEF PlaneInv, LedgerInv, RowsAgree
    <3> QED
      BY <2>1, <3>1, <3>3
  <2> QED
    BY <2>1, <2>2 DEF SuccessWasAnswered
<1> QED
  BY <1>1, PlaneInvariant, PTL

(* An outbox row marked delivered was pushed, whoever claimed it.          *)
THEOREM DeliveriesWerePublished == Spec => []DeliveredWasPublished
<1>1. PlaneInv => DeliveredWasPublished
  BY DEF PlaneInv
<1> QED
  BY <1>1, PlaneInvariant, PTL

(* A message nobody can execute is never dropped.                          *)
THEOREM InvalidMessagesAreKept == Spec => []InvalidIsKept
<1>1. PlaneInv => InvalidIsKept
  BY DEF PlaneInv
<1> QED
  BY <1>1, PlaneInvariant, PTL

-----------------------------------------------------------------------------
(* The control plane runs the ledger, and keeps what the ledger promises.  *)

(* Whatever run_worker, the reaper and the clock do, the rows of tasks,    *)
(* attempts and receipts see a transaction of the ledger or nothing.       *)
THEOREM PlaneRunsLedger == Spec => LedgerSpec
<1>1. Init => LedgerInit
  BY DEF Init
<1> QED
  BY <1>1, StepIsTransaction, PlaneInvariant, PTL DEF Spec, LedgerSpec

(* Attempts, receipts and task rows agree behind the workers.              *)
THEOREM PlaneRowsAgree == Spec => []RowsAgree
  BY PlaneRunsLedger, RowsAlwaysAgree, PTL

(* A task the workers bring to success has its receipt.                    *)
THEOREM PlaneBacksResults == Spec => []ReceiptBacksResult
  BY PlaneRunsLedger, ReceiptAlwaysBacksResult, PTL

(* No late worker changes a settled task.                                  *)
THEOREM PlaneKeepsSettled == Spec => SettledIsFinal
  BY PlaneRunsLedger, SettledTaskIsFinal, PTL

(* No worker rewrites the audit trail.                                     *)
THEOREM PlaneKeepsAudit == Spec => AuditIsAppendOnly
  BY PlaneRunsLedger, AuditTrailIsAppendOnly, PTL

(* The control plane keeps the promise TaskOutcome states to submitters.   *)
THEOREM PlaneImplementsOutcome == Spec => ImplementsOutcome
  BY PlaneRunsLedger, LedgerImplementsOutcome, PTL

-----------------------------------------------------------------------------
(* Steps by actor.                                                         *)

(* The steps of worker w that change something.                            *)
WorkerStep(w) ==
  \/ Dispatch(w) \/ CleanupTerminalOutbox(w) \/ StartRecovery(w) \/ Recover(w)
  \/ Receive(w) \/ Handle(w) \/ Crash(w) \/ Restart(w)

(* The other steps: they move no worker and fail nothing.                  *)
EnvironmentStep ==
  \/ \E t \in Tasks : CreateTask(t) \/ LeaseRunsOut(t) \/ OutboxClaimLapses(t) \/ TaskAges(t)
  \/ \E m \in Messages : ProducerPush(m)
  \/ UNCHANGED vars

LEMMA StepIsOfWorkerOrEnvironment ==
  ASSUME [Next]_vars
  PROVE  EnvironmentStep \/ \E w \in Workers : WorkerStep(w)
  BY DEF Next, EnvironmentStep, WorkerStep, ReceiveTimesOut

LEMMA EnvironmentMovesNoWorker ==
  ASSUME EnvironmentStep
  PROVE  UNCHANGED <<worker, attempt, execution, processing, called, crashes, faults>>
<1> USE DEF redisVars, historyVars, ledgerVars
<1>1. ASSUME NEW t \in Tasks, CreateTask(t) \/ LeaseRunsOut(t) \/ OutboxClaimLapses(t) \/ TaskAges(t)
      PROVE  UNCHANGED <<worker, attempt, execution, processing, called, crashes, faults>>
  BY <1>1 DEF CreateTask, LeaseRunsOut, OutboxClaimLapses, TaskAges, RecordQueuedTask, LeaseExpires
<1>2. ASSUME NEW m \in Messages, ProducerPush(m)
      PROVE  UNCHANGED <<worker, attempt, execution, processing, called, crashes, faults>>
  BY <1>2 DEF ProducerPush
<1>3. CASE UNCHANGED vars
  BY <1>3 DEF vars
<1> QED
  BY <1>1, <1>2, <1>3 DEF EnvironmentStep

-----------------------------------------------------------------------------
(* The outbox row of a task names its claimant exactly while it is claimed.*)

ClaimantInv ==
  /\ \A t \in Tasks : claimant[t] # NoWorker <=> outbox[t] \in {"claimed", "lapsed"}
  /\ \A t \in Tasks : status[t] = "absent" => outbox[t] = "none"

(* No transaction deletes a task row.                                      *)
LEMMA RowsStay ==
  ASSUME LedgerInv, [LedgerNext]_ledgerVars, NEW t \in Tasks, status'[t] = "absent"
  PROVE  status[t] = "absent"
<1> USE DEF LedgerInv, LedgerTypeOK
<1>1. ASSUME NEW u \in Tasks, RecordQueuedTask(u) \/ LeaseExpires(u) \/ RecoverDelivery(u)
      PROVE  status[t] = "absent"
  BY <1>1 DEF RecordQueuedTask, LeaseExpires, RecoverDelivery
<1>2. ASSUME NEW u \in Tasks, NEW e \in Executions, ClaimUncertain(u, e) \/ ClaimGranted(u, e)
      PROVE  status[t] = "absent"
  BY <1>2 DEF ClaimUncertain, ClaimGranted
<1>3. ASSUME NEW e \in Executions, RecordProviderAttempt(e) \/ RecordCompletion(e) \/ RecordFailed(e)
      PROVE  status[t] = "absent"
  BY <1>3 DEF RecordProviderAttempt, RecordCompletion, RecordFailed
<1>4. ASSUME NEW S \in SUBSET Tasks, ReapOrphans(S) PROVE status[t] = "absent"
  BY <1>4 DEF ReapOrphans
<1>5. CASE UNCHANGED ledgerVars
  BY <1>5 DEF ledgerVars
<1> QED
  BY <1>1, <1>2, <1>3, <1>4, <1>5 DEF LedgerNext, ClaimRefused

LEMMA ClaimantStep ==
  ASSUME PlaneInv, ClaimantInv, [Next]_vars
  PROVE  ClaimantInv'
<1> USE DEF outboxVars
<1>1. /\ outbox \in [Tasks -> OutboxState] /\ claimant \in [Tasks -> Workers \cup {NoWorker}]
      /\ \A w \in Workers : w # NoWorker
  BY ControlPlaneAssumption DEF PlaneInv, PlaneTypes
<1>2. \A t \in Tasks : status'[t] = "absent" => status[t] = "absent"
  BY StepIsTransaction, RowsStay DEF PlaneInv
<1>3. ASSUME UNCHANGED outboxVars PROVE ClaimantInv'
  BY <1>2, <1>3 DEF ClaimantInv
<1>4. ASSUME NEW t \in Tasks, CreateTask(t) PROVE ClaimantInv'
  <2>1. /\ status[t] = "absent" /\ status'[t] = "queued"
        /\ outbox' = [outbox EXCEPT ![t] = "pending"] /\ claimant' = claimant
    BY <1>4 DEF CreateTask, RecordQueuedTask, PlaneInv, LedgerInv, LedgerTypeOK
  <2> QED
    BY <1>1, <1>2, <2>1 DEF ClaimantInv
<1>5. ASSUME NEW t \in Tasks, OutboxClaimLapses(t) PROVE ClaimantInv'
  BY <1>1, <1>5 DEF OutboxClaimLapses, ClaimantInv, ledgerVars
<1>6. ASSUME NEW w \in Workers, ClaimPendingOutbox(w) PROVE ClaimantInv'
  BY <1>1, <1>6 DEF ClaimPendingOutbox, Dispatchable, ClaimantInv, ledgerVars
<1>7. ASSUME NEW w \in Workers, MarkOutboxDelivered(w) PROVE ClaimantInv'
  <2> DEFINE t == worker[w].message
  <2>1. t \in Tasks /\ status' = status
    BY <1>7, NamedIsMessage, WorkerIsRecord DEF MarkOutboxDelivered, GoodWorker, ledgerVars
  <2>2. CASE /\ outbox[t] \in {"claimed", "lapsed"}
             /\ outbox' = [outbox EXCEPT ![t] = "delivered"]
             /\ claimant' = [claimant EXCEPT ![t] = NoWorker]
    BY <1>1, <2>1, <2>2 DEF ClaimantInv
  <2> QED
    BY <1>3, <1>7, <2>2 DEF MarkOutboxDelivered
<1>8. ASSUME NEW w \in Workers, CleanupTerminalOutbox(w) PROVE ClaimantInv'
  BY <1>1, <1>8 DEF CleanupTerminalOutbox, ClaimantInv, ledgerVars
<1>9. CASE EnvironmentStep
  <2>1. ASSUME NEW t \in Tasks, LeaseRunsOut(t) \/ TaskAges(t) PROVE ClaimantInv'
    BY <1>3, <2>1 DEF LeaseRunsOut, TaskAges
  <2>2. ASSUME NEW m \in Messages, ProducerPush(m) PROVE ClaimantInv'
    BY <1>3, <2>2 DEF ProducerPush
  <2>3. CASE UNCHANGED vars
    BY <1>3, <2>3 DEF vars
  <2> QED
    BY <1>4, <1>5, <1>9, <2>1, <2>2, <2>3 DEF EnvironmentStep
<1>10. ASSUME NEW w \in Workers, WorkerStep(w) PROVE ClaimantInv'
  <2>1. CASE Dispatch(w)
    <3>1. ASSUME NEW t \in Tasks, Publish(w, t) PROVE ClaimantInv'
      BY <1>3, <3>1 DEF Publish
    <3> QED
      BY <1>3, <1>6, <1>7, <2>1, <3>1 DEF Dispatch, PublishDone
  <2>2. CASE StartRecovery(w) \/ Receive(w) \/ Crash(w) \/ Restart(w)
    BY <1>3, <2>2 DEF StartRecovery, Receive, Crash, Restart
  <2>3. CASE Recover(w)
    BY <1>3, <2>3 DEF Recover, RecoverInvalid, RecoverRow, RequeueStaleDelivery,
                      AcknowledgeProcessingDelivery, ReapReadWaiting, ReapReadProcessing, ReapRows
  <2>4. CASE Handle(w)
    BY <1>3, <2>4 DEF Handle, DeadLetter, Claim, Attempt, Call, Await, SkipCall, Complete,
                      RecordFailure, Acknowledge
  <2> QED
    BY <1>8, <1>10, <2>1, <2>2, <2>3, <2>4 DEF WorkerStep
<1> QED
  BY <1>9, <1>10, StepIsOfWorkerOrEnvironment

(* Rows, lists and locals keep their types, and an outbox row has a claim  *)
(* ID exactly while it is claimed: mark_outbox_delivered clears it.        *)
THEOREM PlaneTypeCorrect == Spec => []TypeOK
<1>1. Init => ClaimantInv
  BY DEF Init, ClaimantInv
<1>2. PlaneInv /\ ClaimantInv /\ [Next]_vars => ClaimantInv'
  BY ClaimantStep
<1>3. PlaneInv /\ ClaimantInv => TypeOK
  BY DEF PlaneInv, PlaneTypes, LedgerInv, TypeOK, WorkerRecords, ClaimantInv
<1> QED
  BY <1>1, <1>2, <1>3, PlaneInvariant, PTL DEF Spec

-----------------------------------------------------------------------------
(* One executor per task, as long as no live worker outlasts its lease:    *)
(* the lease a worker holds is the one its task names and has not run out, *)
(* so that neither recovery nor another claim touches the row.             *)

LeaseIsKept(w) ==
  LET e == worker[w].lease IN
  e # NoExecution => owner[e] \in Tasks /\ execution[owner[e]] = e /\ owner[e] \notin expired

LeasesDiffer ==
  \A v, w \in Workers : v # w /\ worker[v].lease # NoExecution => worker[v].lease # worker[w].lease

SoleInv == (\A w \in Workers : LeaseIsKept(w)) /\ LeasesDiffer

(* A step after which worker w has its lease, or none, and no lease of any *)
(* task has run out that had not before.                                   *)
Keeps(w) ==
  /\ \A v \in Workers : v # w => worker'[v] = worker[v]
  /\ worker'[w].lease \in {worker[w].lease, NoExecution}
  /\ expired' \subseteq expired

(* No transaction moves a task whose lease has not run out to another.     *)
LEMMA LeaseSurvives ==
  ASSUME LedgerInv, [LedgerNext]_ledgerVars, NEW e \in Executions,
         owner[e] \in Tasks, execution[owner[e]] = e, owner[e] \notin expired
  PROVE  owner'[e] = owner[e] /\ execution'[owner[e]] = e
<1> USE DEF LedgerInv, LedgerTypeOK
<1> DEFINE t == owner[e]
<1>1. owner'[e] = t
  BY LedgerGrows, LedgerAssumption
<1>2. status[t] \notin {"absent", "queued"}
  BY LedgerAssumption DEF RowsAgree
<1>3. ASSUME NEW u \in Tasks, RecoverDelivery(u) PROVE execution'[t] = e
  BY <1>2, <1>3 DEF RecoverDelivery, Recoverable
<1>4. ASSUME NEW u \in Tasks, NEW f \in Executions, ClaimGranted(u, f) PROVE execution'[t] = e
  BY <1>2, <1>4 DEF ClaimGranted
<1>5. ASSUME NEW u \in Tasks, NEW f \in Executions, ClaimUncertain(u, f) PROVE execution'[t] = e
  BY <1>5 DEF ClaimUncertain
<1>6. ASSUME NEW u \in Tasks, RecordQueuedTask(u) \/ LeaseExpires(u) PROVE execution'[t] = e
  BY <1>6 DEF RecordQueuedTask, LeaseExpires
<1>7. ASSUME NEW f \in Executions, RecordProviderAttempt(f) \/ RecordCompletion(f) \/ RecordFailed(f)
      PROVE  execution'[t] = e
  BY <1>7 DEF RecordProviderAttempt, RecordCompletion, RecordFailed
<1>8. ASSUME NEW S \in SUBSET Tasks, ReapOrphans(S) PROVE execution'[t] = e
  BY <1>8 DEF ReapOrphans
<1>9. ASSUME UNCHANGED ledgerVars PROVE execution'[t] = e
  BY <1>9 DEF ledgerVars
<1> QED
  BY <1>1, <1>3, <1>4, <1>5, <1>6, <1>7, <1>8, <1>9 DEF LedgerNext, ClaimRefused

(* Steps of recovery, the reaper, the dispatcher and the environment.      *)
LEMMA RoundsKeep ==
  ASSUME PlaneInv, NEW w \in Workers,
         \/ Dispatch(w) \/ CleanupTerminalOutbox(w) \/ StartRecovery(w) \/ Recover(w)
         \/ Receive(w) \/ Crash(w) \/ Restart(w)
  PROVE  Keeps(w)
<1> USE DEF Keeps, ledgerVars, Resting
<1>1. worker \in [Workers -> WorkerRecords] /\ worker[w] \in WorkerRecords
  BY DEF PlaneInv, PlaneTypes
<1>2. CASE Dispatch(w) \/ CleanupTerminalOutbox(w) \/ StartRecovery(w)
  <2>1. ASSUME NEW t \in Tasks, Publish(w, t) PROVE Keeps(w)
    BY <1>1, <2>1 DEF Publish, DropItem, WorkerRecords
  <2>2. CASE MarkOutboxDelivered(w)
    BY <1>1, <2>2 DEF MarkOutboxDelivered, DropItem, WorkerRecords
  <2>3. CASE ClaimPendingOutbox(w) \/ PublishDone(w)
    BY <1>1, <2>3 DEF ClaimPendingOutbox, PublishDone, Rest, WorkerRecords
  <2>4. CASE CleanupTerminalOutbox(w) \/ StartRecovery(w)
    BY <1>1, <2>4 DEF CleanupTerminalOutbox, StartRecovery, WorkerRecords
  <2> QED
    BY <1>2, <2>1, <2>2, <2>3, <2>4 DEF Dispatch
<1>3. ASSUME NEW m \in Messages, RecoverInvalid(w, m) PROVE Keeps(w)
  BY <1>1, <1>3 DEF RecoverInvalid, DropItem, WorkerRecords
<1>4. ASSUME NEW m \in Messages, RecoverRow(w, m) PROVE Keeps(w)
  BY <1>1, <1>4 DEF RecoverRow, RecoverDelivery, DropItem, WorkerRecords
<1>5. CASE \/ RequeueStaleDelivery(w) \/ AcknowledgeProcessingDelivery(w)
           \/ ReapReadWaiting(w) \/ ReapReadProcessing(w) \/ ReapRows(w)
  BY <1>1, <1>5 DEF RequeueStaleDelivery, AcknowledgeProcessingDelivery, ReapReadWaiting,
                    ReapReadProcessing, ReapRows, ReapOrphans, DropItem, Rest, WorkerRecords
<1>6. CASE Receive(w)
  BY <1>1, <1>6 DEF Receive, WorkerRecords
<1>7. CASE Crash(w) \/ Restart(w)
  BY <1>1, <1>7 DEF Crash, Restart, Rest, WorkerRecords
<1> QED
  BY <1>2, <1>3, <1>4, <1>5, <1>6, <1>7 DEF Recover

(* Of a handler's steps only a granted claim brings a new lease: the       *)
(* execution it draws belonged to no task.                                 *)
Leased(w) ==
  /\ \A v \in Workers : v # w => worker'[v] = worker[v]
  /\ expired' \subseteq expired
  /\ \E t \in Tasks, e \in Executions :
       /\ worker'[w].lease = e /\ owner[e] = NoTask
       /\ owner'[e] = t /\ execution'[t] = e /\ t \notin expired'

LEMMA HandlerKeeps ==
  ASSUME PlaneInv, NEW w \in Workers, Handle(w)
  PROVE  Keeps(w) \/ Leased(w)
<1> USE DEF ledgerVars, Resting
<1>1. worker \in [Workers -> WorkerRecords] /\ worker[w] \in WorkerRecords
  BY DEF PlaneInv, PlaneTypes
<1>2. CASE \/ DeadLetter(w) \/ Call(w) \/ Await(w) \/ SkipCall(w) \/ Acknowledge(w)
           \/ Attempt(w) \/ Complete(w) \/ RecordFailure(w)
  <2>1. expired' \subseteq expired
    BY <1>2 DEF DeadLetter, Call, Await, SkipCall, Acknowledge, Attempt, Complete, RecordFailure,
                RecordProviderAttempt, RecordCompletion, RecordFailed
  <2>2. (\E place \in Places : Goto(w, place)) \/ Rest(w)
    BY <1>2 DEF DeadLetter, Call, Await, SkipCall, Acknowledge, Attempt, Complete, RecordFailure, Places
  <2> QED
    BY <1>1, <2>1, <2>2 DEF Goto, Rest, WorkerRecords, Keeps
<1>3. CASE Claim(w)
  <2> DEFINE t == worker[w].task
             e == CHOOSE x \in Unused : TRUE
  <2>1. CASE /\ t # NoTask /\ Unused # {} /\ ClaimGranted(t, e)
             /\ worker' = [worker EXCEPT ![w].at = "attempt", ![w].lease = e]
    <3>1. t \in Tasks /\ e \in Executions /\ owner[e] = NoTask
      BY <1>1, <2>1 DEF WorkerRecords, Unused
    <3>2. owner'[e] = t /\ execution'[t] = e /\ expired' = expired \ {t}
      BY <2>1, <3>1 DEF ClaimGranted, PlaneInv, LedgerInv, LedgerTypeOK
    <3>3. worker'[w].lease = e /\ \A v \in Workers : v # w => worker'[v] = worker[v]
      BY <1>1, <2>1 DEF WorkerRecords
    <3> QED
      BY <3>1, <3>2, <3>3 DEF Leased
  <2>2. CASE (Goto(w, "ack") \/ Rest(w)) /\ expired' \subseteq expired
    BY <1>1, <2>2 DEF Goto, Rest, WorkerRecords, Keeps
  <2> QED
    BY <1>3, <2>1, <2>2 DEF Claim, ClaimUncertain, ClaimRefused
<1> QED
  BY <1>2, <1>3 DEF Handle

(* A worker's step moves no other worker.                                  *)
LEMMA OthersStay ==
  ASSUME PlaneInv, NEW w \in Workers, WorkerStep(w), NEW v \in Workers, v # w
  PROVE  worker'[v] = worker[v]
  BY RoundsKeep, HandlerKeeps DEF WorkerStep, Keeps, Leased

(* A lease a worker keeps stays the one its task names.                    *)
LEMMA KeptLease ==
  ASSUME PlaneInv, [LedgerNext]_ledgerVars, NEW w \in Workers, LeaseIsKept(w),
         worker'[w].lease \in {worker[w].lease, NoExecution},
         worker[w].lease # NoExecution => owner[worker[w].lease] \notin expired'
  PROVE  LeaseIsKept(w)'
<1> SUFFICES ASSUME worker'[w].lease # NoExecution PROVE LeaseIsKept(w)'
  BY DEF LeaseIsKept
<1> DEFINE e == worker[w].lease
<1>1. e \in Executions /\ worker'[w].lease = e
  BY WorkerIsRecord DEF WorkerRecords
<1>2. owner[e] \in Tasks /\ execution[owner[e]] = e /\ owner[e] \notin expired
  BY <1>1 DEF LeaseIsKept
<1>3. owner'[e] = owner[e] /\ execution'[owner[e]] = e
  BY <1>1, <1>2, LeaseSurvives DEF PlaneInv
<1> QED
  BY <1>1, <1>2, <1>3 DEF LeaseIsKept

LEMMA SoleStep ==
  ASSUME ~ Stalls, PlaneInv, SoleInv, [Next]_vars
  PROVE  SoleInv'
<1>1. [LedgerNext]_ledgerVars
  BY StepIsTransaction
<1>2. ASSUME NEW w \in Workers, Keeps(w) PROVE SoleInv'
  <2>1. ASSUME NEW v \in Workers PROVE worker'[v].lease \in {worker[v].lease, NoExecution}
    BY <1>2 DEF Keeps
  <2>2. ASSUME NEW v \in Workers PROVE LeaseIsKept(v)'
    BY <1>1, <1>2, <2>1, KeptLease DEF SoleInv, LeaseIsKept, Keeps
  <2>3. LeasesDiffer'
    BY <2>1 DEF SoleInv, LeasesDiffer
  <2> QED
    BY <2>2, <2>3 DEF SoleInv
<1>3. ASSUME NEW w \in Workers, Leased(w) PROVE SoleInv'
  <2>1. PICK t \in Tasks, e \in Executions :
          /\ worker'[w].lease = e /\ owner[e] = NoTask
          /\ owner'[e] = t /\ execution'[t] = e /\ t \notin expired'
    BY <1>3 DEF Leased
  <2>2. ASSUME NEW v \in Workers, v # w
        PROVE  LeaseIsKept(v)' /\ worker'[v] = worker[v] /\ worker[v].lease # e
    <3>1. worker'[v] = worker[v] /\ expired' \subseteq expired
      BY <1>3, <2>2 DEF Leased
    <3>2. worker[v].lease # e
      BY <2>1, LedgerAssumption DEF SoleInv, LeaseIsKept
    <3>3. LeaseIsKept(v)'
      BY <1>1, <3>1, KeptLease DEF SoleInv, LeaseIsKept
    <3> QED
      BY <3>1, <3>2, <3>3
  <2>3. LeaseIsKept(w)'
    BY <2>1 DEF LeaseIsKept
  <2>4. LeasesDiffer'
    BY <2>1, <2>2 DEF SoleInv, LeasesDiffer
  <2> QED
    BY <2>2, <2>3, <2>4 DEF SoleInv
<1>4. ASSUME NEW t \in Tasks, LeaseRunsOut(t) PROVE SoleInv'
  <2>1. worker' = worker /\ expired' = expired \cup {t} /\ ~ Executing(t)
    BY <1>4 DEF LeaseRunsOut, LeaseExpires
  <2>2. ASSUME NEW w \in Workers PROVE LeaseIsKept(w)'
    <3>1. worker[w].lease # NoExecution => owner[worker[w].lease] # t
      BY <2>1 DEF Executing, SoleInv, LeaseIsKept
    <3> QED
      BY <1>1, <2>1, <3>1, KeptLease DEF SoleInv, LeaseIsKept
  <2> QED
    BY <2>1, <2>2 DEF SoleInv, LeasesDiffer
<1>5. ASSUME worker' = worker, expired' = expired PROVE SoleInv'
  <2>1. ASSUME NEW w \in Workers PROVE LeaseIsKept(w)'
    BY <1>1, <1>5, KeptLease DEF SoleInv, LeaseIsKept
  <2> QED
    BY <1>5, <2>1 DEF SoleInv, LeasesDiffer
<1>6. ASSUME NEW t \in Tasks, CreateTask(t) \/ OutboxClaimLapses(t) \/ TaskAges(t) PROVE SoleInv'
  BY <1>5, <1>6 DEF CreateTask, OutboxClaimLapses, TaskAges, RecordQueuedTask, ledgerVars
<1>7. ASSUME NEW m \in Messages, ProducerPush(m) PROVE SoleInv'
  BY <1>5, <1>7 DEF ProducerPush, ledgerVars
<1>8. ASSUME UNCHANGED vars PROVE SoleInv'
  BY <1>5, <1>8 DEF vars, ledgerVars
<1>9. ASSUME NEW w \in Workers, ReceiveTimesOut(w) PROVE SoleInv'
  BY <1>8, <1>9 DEF ReceiveTimesOut
<1> QED
  BY <1>2, <1>3, <1>4, <1>6, <1>7, <1>8, <1>9, RoundsKeep, HandlerKeeps DEF Next

LEMMA SoleInit == Init => SoleInv
  BY LedgerAssumption DEF Init, Resting, SoleInv, LeaseIsKept, LeasesDiffer

(* No two live workers execute one task: for any number of workers, tasks, *)
(* crashes and failed calls, if only no live worker outlasts its lease.    *)
THEOREM OneExecutorPerTask == ASSUME ~ Stalls PROVE Spec => []SingleExecutor
<1>1. Init => SoleInv
  BY SoleInit
<1>2. PlaneInv /\ SoleInv /\ [Next]_vars => SoleInv'
  BY SoleStep
<1>3. SoleInv => SingleExecutor
  <2> SUFFICES ASSUME SoleInv, NEW v \in Workers, NEW w \in Workers, v # w,
                      worker[v].lease # NoExecution, worker[w].lease # NoExecution,
                      owner[worker[v].lease] = owner[worker[w].lease]
               PROVE  FALSE
    BY DEF SingleExecutor
  <2> QED
    BY DEF SoleInv, LeaseIsKept, LeasesDiffer
<1> QED
  BY <1>1, <1>2, <1>3, PlaneInvariant, PTL DEF Spec
-----------------------------------------------------------------------------
(* Leases, for any number of workers, failures and stalls: a handler keeps *)
(* the lease it was granted until it lets the message go, nobody else has  *)
(* the same one, and a worker that handles no message has none.            *)

Holding == Handling \cup {"ack"}

LeaseIsOwn(w) ==
  LET r == worker[w] IN
  /\ r.lease # NoExecution => owner[r.lease] \in Tasks
  /\ r.at \notin Holding => r.lease = NoExecution

LeaseInv == (\A w \in Workers : LeaseIsOwn(w)) /\ LeasesDiffer

(* A step outside the handler.                                             *)
Round(w) ==
  \/ Dispatch(w) \/ CleanupTerminalOutbox(w) \/ StartRecovery(w) \/ Recover(w)
  \/ Receive(w) \/ Crash(w) \/ Restart(w)

LEMMA RoundsHoldNoLease ==
  ASSUME PlaneInv, LeaseInv, NEW w \in Workers, Round(w)
  PROVE  worker'[w].lease = NoExecution
<1>1. CASE Crash(w)
  BY <1>1, WorkerIsRecord DEF Crash, Resting, PlaneInv, PlaneTypes
<1>2. CASE ~ Crash(w)
  <2>1. worker[w].at \notin Holding
    <3> USE DEF Holding, Handling
    <3>1. CASE Dispatch(w) \/ CleanupTerminalOutbox(w) \/ StartRecovery(w)
      BY <3>1 DEF Dispatch, ClaimPendingOutbox, Publish, PublishDone, MarkOutboxDelivered,
                  CleanupTerminalOutbox, StartRecovery
    <3>2. CASE Recover(w)
      BY <3>2 DEF Recover, RecoverInvalid, RecoverRow, RequeueStaleDelivery,
                  AcknowledgeProcessingDelivery, ReapReadWaiting, ReapReadProcessing, ReapRows
    <3>3. CASE Receive(w) \/ Restart(w)
      BY <3>3 DEF Receive, Restart
    <3> QED
      BY <1>2, <3>1, <3>2, <3>3 DEF Round
  <2>2. worker[w].lease = NoExecution
    BY <2>1 DEF LeaseInv, LeaseIsOwn
  <2> QED
    BY <2>2, RoundsKeep DEF Round, Keeps
<1> QED
  BY <1>1, <1>2

(* Only a handler that let its message go or died stops holding its lease. *)
LEMMA HandlersHold ==
  ASSUME PlaneInv, LeaseInv, NEW w \in Workers, Handle(w), worker'[w].at \notin Holding
  PROVE  worker'[w].lease = NoExecution
<1> USE DEF Holding, Handling, Goto, Rest, Resting
<1>1. worker \in [Workers -> WorkerRecords] /\ worker[w] \in WorkerRecords
  BY DEF PlaneInv, PlaneTypes
<1>2. CASE Claim(w)
  BY <1>1, <1>2 DEF Claim, WorkerRecords
<1>3. CASE DeadLetter(w) \/ Attempt(w) \/ Call(w) \/ Await(w) \/ SkipCall(w)
  BY <1>1, <1>3 DEF DeadLetter, Attempt, Call, Await, SkipCall, WorkerRecords
<1>4. CASE Complete(w) \/ RecordFailure(w) \/ Acknowledge(w)
  BY <1>1, <1>4 DEF Complete, RecordFailure, Acknowledge, WorkerRecords
<1> QED
  BY <1>2, <1>3, <1>4 DEF Handle

LEMMA LeaseStep ==
  ASSUME PlaneInv, LeaseInv, [Next]_vars
  PROVE  LeaseInv'
<1>1. [LedgerNext]_ledgerVars
  BY StepIsTransaction
<1>2. ASSUME NEW v \in Workers, worker[v].lease # NoExecution
      PROVE  owner'[worker[v].lease] = owner[worker[v].lease] /\ owner[worker[v].lease] \in Tasks
  <2>1. worker[v].lease \in Executions /\ owner[worker[v].lease] \in Tasks
    BY <1>2, WorkerIsRecord DEF WorkerRecords, LeaseInv, LeaseIsOwn
  <2> QED
    BY <1>1, <2>1, LedgerGrows, LedgerAssumption DEF PlaneInv
<1>3. ASSUME NEW v \in Workers, worker'[v] = worker[v] PROVE LeaseIsOwn(v)'
  BY <1>2, <1>3 DEF LeaseInv, LeaseIsOwn
<1>4. CASE EnvironmentStep
  <2>1. worker' = worker
    BY <1>4, EnvironmentMovesNoWorker
  <2> QED
    BY <1>3, <2>1 DEF LeaseInv, LeasesDiffer
<1>5. ASSUME NEW w \in Workers, WorkerStep(w) PROVE LeaseInv'
  <2>1. ASSUME NEW v \in Workers, v # w PROVE worker'[v] = worker[v] /\ LeaseIsOwn(v)'
    BY <1>3, <1>5, <2>1, OthersStay
  <2>2. CASE worker'[w].lease \in {worker[w].lease, NoExecution}
    <3>1. worker'[w].at \notin Holding => worker'[w].lease = NoExecution
      BY <1>5, HandlersHold, RoundsHoldNoLease DEF WorkerStep, Round
    <3>2. LeaseIsOwn(w)'
      BY <1>2, <2>2, <3>1 DEF LeaseInv, LeaseIsOwn
    <3> QED
      BY <2>1, <2>2, <3>2 DEF LeaseInv, LeasesDiffer
  <2>3. CASE Handle(w) /\ Leased(w)
    <3>1. PICK t \in Tasks, e \in Executions : worker'[w].lease = e /\ owner[e] = NoTask /\ owner'[e] = t
      BY <2>3 DEF Leased
    <3>2. \A v \in Workers : worker[v].lease # e
      BY <3>1, LedgerAssumption DEF LeaseInv, LeaseIsOwn
    <3>3. worker'[w].at \in Holding
      BY <2>3, <3>1, HandlersHold, LedgerAssumption
    <3> QED
      BY <2>1, <3>1, <3>2, <3>3 DEF LeaseInv, LeaseIsOwn, LeasesDiffer
  <2> QED
    BY <1>5, <2>2, <2>3, RoundsKeep, HandlerKeeps DEF WorkerStep, Keeps
<1> QED
  BY <1>4, <1>5, StepIsOfWorkerOrEnvironment

LEMMA LeaseInit == Init => LeaseInv
  BY DEF Init, Resting, LeaseInv, LeaseIsOwn, LeasesDiffer, Holding, Handling

LEMMA LeaseInvariant == Spec => []LeaseInv
<1>1. PlaneInv /\ LeaseInv /\ [Next]_vars => LeaseInv'
  BY LeaseStep
<1> QED
  BY <1>1, LeaseInit, PlaneInvariant, PTL DEF Spec

-----------------------------------------------------------------------------
(* Attempts, for any number of workers, failures and stalls: the attempt   *)
(* of a call under way is open, or a duplicate has closed it as uncertain. *)

Calling == {"call", "await", "complete"}

AttemptIsOpen(w) ==
  LET r == worker[w] IN
  /\ r.at = "attempt" => attempt[r.lease] = "none"
  /\ r.at \in Calling => attempt[r.lease] \in {"inflight", "outcome_unknown"}

AttemptInv == (\A w \in Workers : AttemptIsOpen(w)) /\ SuccessClosesAttempt

NoNewSuccess == \A t \in Tasks : status'[t] = "succeeded" => status[t] = "succeeded"

(* A task comes to success by a completion only.                           *)
LEMMA OnlyCompletionSucceeds ==
  ASSUME PlaneInv, [Next]_vars
  PROVE  \/ NoNewSuccess
         \/ \E w \in Workers : worker[w].at = "complete" /\ RecordCompletion(worker[w].lease)
<1> USE DEF NoNewSuccess
<1>1. status \in [Tasks -> TaskStatus]
  BY DEF PlaneInv, LedgerInv, LedgerTypeOK
<1>2. ASSUME UNCHANGED ledgerVars PROVE NoNewSuccess
  BY <1>2 DEF ledgerVars
<1>3. ASSUME NEW t \in Tasks, CreateTask(t) \/ LeaseRunsOut(t) \/ OutboxClaimLapses(t) \/ TaskAges(t)
      PROVE  NoNewSuccess
  <2>1. RecordQueuedTask(t) \/ LeaseExpires(t) \/ UNCHANGED ledgerVars
    BY <1>3 DEF CreateTask, LeaseRunsOut, OutboxClaimLapses, TaskAges
  <2> QED
    BY <1>1, <1>2, <2>1 DEF RecordQueuedTask, LeaseExpires
<1>4. ASSUME NEW m \in Messages, ProducerPush(m) PROVE NoNewSuccess
  BY <1>2, <1>4 DEF ProducerPush
<1>5. ASSUME NEW w \in Workers,
             \/ Dispatch(w) \/ CleanupTerminalOutbox(w) \/ StartRecovery(w) \/ Receive(w)
             \/ Crash(w) \/ Restart(w)
      PROVE  NoNewSuccess
  BY <1>2, <1>5 DEF Dispatch, ClaimPendingOutbox, Publish, PublishDone, MarkOutboxDelivered,
                    CleanupTerminalOutbox, StartRecovery, Receive, Crash, Restart
<1>6. ASSUME NEW w \in Workers, Recover(w) PROVE NoNewSuccess
  <2>1. ASSUME NEW m \in Messages, RecoverInvalid(w, m) PROVE NoNewSuccess
    BY <1>2, <2>1 DEF RecoverInvalid
  <2>2. ASSUME NEW m \in Messages, RecoverRow(w, m) PROVE NoNewSuccess
    <3>1. RecoverDelivery(m) \/ UNCHANGED ledgerVars
      BY <2>2 DEF RecoverRow
    <3> QED
      BY <1>1, <1>2, <3>1 DEF RecoverDelivery
  <2>3. CASE ReapRows(w)
    <3>1. (\E S \in SUBSET Tasks : ReapOrphans(S)) \/ UNCHANGED ledgerVars
      BY <2>3 DEF ReapRows, PlaneInv, PlaneTypes
    <3> QED
      BY <1>1, <1>2, <3>1 DEF ReapOrphans
  <2>4. CASE \/ RequeueStaleDelivery(w) \/ AcknowledgeProcessingDelivery(w)
             \/ ReapReadWaiting(w) \/ ReapReadProcessing(w)
    BY <1>2, <2>4 DEF RequeueStaleDelivery, AcknowledgeProcessingDelivery, ReapReadWaiting,
                      ReapReadProcessing
  <2> QED
    BY <1>6, <2>1, <2>2, <2>3, <2>4 DEF Recover
<1>7. ASSUME NEW w \in Workers, Handle(w)
      PROVE  NoNewSuccess \/ (worker[w].at = "complete" /\ RecordCompletion(worker[w].lease))
  <2>1. CASE Claim(w)
    <3> DEFINE e == CHOOSE x \in Unused : TRUE
    <3>1. \/ ClaimGranted(worker[w].task, e) \/ UNCHANGED ledgerVars
          \/ \E f \in Executions : ClaimUncertain(worker[w].task, f)
      BY <2>1 DEF Claim, ClaimRefused
    <3> HIDE DEF e
    <3> QED
      BY <1>1, <1>2, <3>1 DEF ClaimGranted, ClaimUncertain
  <2>2. CASE Attempt(w) \/ RecordFailure(w)
    <3>1. \/ RecordProviderAttempt(worker[w].lease) \/ RecordFailed(worker[w].lease)
          \/ UNCHANGED ledgerVars
      BY <2>2 DEF Attempt, RecordFailure
    <3> QED
      BY <1>1, <1>2, <3>1 DEF RecordProviderAttempt, RecordFailed
  <2>3. CASE Complete(w)
    BY <1>2, <2>3 DEF Complete
  <2>4. CASE DeadLetter(w) \/ Call(w) \/ Await(w) \/ SkipCall(w) \/ Acknowledge(w)
    BY <1>2, <2>4 DEF DeadLetter, Call, Await, SkipCall, Acknowledge
  <2> QED
    BY <1>7, <2>1, <2>2, <2>3, <2>4 DEF Handle
<1>8. ASSUME NEW w \in Workers, ReceiveTimesOut(w) \/ UNCHANGED vars PROVE NoNewSuccess
  BY <1>2, <1>8 DEF ReceiveTimesOut, vars
<1>9. ASSUME UNCHANGED vars PROVE NoNewSuccess
  BY <1>2, <1>9 DEF vars
<1> QED
  BY <1>3, <1>4, <1>5, <1>6, <1>7, <1>8, <1>9 DEF Next

(* An earlier success keeps its execution and the verdict on its attempt.  *)
LEMMA SuccessesStand ==
  ASSUME PlaneInv, [LedgerNext]_ledgerVars, SuccessClosesAttempt,
         NEW t \in Tasks, status[t] = "succeeded"
  PROVE  attempt'[execution'[t]] \in {"completed", "outcome_unknown"}
<1>1. execution'[t] = execution[t] /\ execution[t] \in Executions
  BY SettledStep DEF PlaneInv, LedgerInv, SettledKept, Terminal, RowsAgree
<1>2. attempt[execution[t]] \in {"completed", "outcome_unknown"}
  BY DEF SuccessClosesAttempt
<1> QED
  BY <1>1, <1>2, AuditStep DEF PlaneInv, LedgerInv, AuditGrown

LEMMA RoundsLeaveAttempts ==
  ASSUME PlaneInv, NEW w \in Workers, Round(w)
  PROVE  attempt' = attempt
<1> USE DEF ledgerVars
<1>1. CASE Dispatch(w) \/ CleanupTerminalOutbox(w) \/ StartRecovery(w)
  BY <1>1 DEF Dispatch, ClaimPendingOutbox, Publish, PublishDone, MarkOutboxDelivered,
              CleanupTerminalOutbox, StartRecovery
<1>2. CASE Recover(w)
  <2>1. ASSUME NEW m \in Messages, RecoverInvalid(w, m) \/ RecoverRow(w, m) PROVE attempt' = attempt
    BY <2>1 DEF RecoverInvalid, RecoverRow, RecoverDelivery
  <2>2. CASE \/ RequeueStaleDelivery(w) \/ AcknowledgeProcessingDelivery(w)
             \/ ReapReadWaiting(w) \/ ReapReadProcessing(w) \/ ReapRows(w)
    BY <2>2 DEF RequeueStaleDelivery, AcknowledgeProcessingDelivery, ReapReadWaiting,
                ReapReadProcessing, ReapRows, ReapOrphans
  <2> QED
    BY <1>2, <2>1, <2>2 DEF Recover
<1>3. CASE Receive(w) \/ Crash(w) \/ Restart(w)
  BY <1>3 DEF Receive, Crash, Restart
<1> QED
  BY <1>1, <1>2, <1>3 DEF Round

(* What a handler does to attempts other than its own: a duplicate closes  *)
(* an open one as uncertain.                                               *)
LEMMA OtherAttempts ==
  ASSUME PlaneInv, NEW w \in Workers, Handle(w), NEW e \in Executions, e # worker[w].lease
  PROVE  attempt'[e] = attempt[e] \/ (attempt[e] = "inflight" /\ attempt'[e] = "outcome_unknown")
<1> USE DEF ledgerVars, PlaneInv, LedgerInv, LedgerTypeOK
<1>1. CASE Claim(w)
  <2> DEFINE x == CHOOSE y \in Unused : TRUE
  <2>1. \/ ClaimGranted(worker[w].task, x) \/ UNCHANGED attempt
        \/ \E f \in Executions : ClaimUncertain(worker[w].task, f)
    BY <1>1 DEF Claim, ClaimRefused
  <2> HIDE DEF x
  <2> QED
    BY <2>1 DEF ClaimGranted, ClaimUncertain, Inflight
<1>2. CASE Attempt(w) \/ Complete(w) \/ RecordFailure(w)
  BY <1>2 DEF Attempt, Complete, RecordFailure, RecordProviderAttempt, RecordCompletion, RecordFailed
<1>3. CASE DeadLetter(w) \/ Call(w) \/ Await(w) \/ SkipCall(w) \/ Acknowledge(w)
  BY <1>3 DEF DeadLetter, Call, Await, SkipCall, Acknowledge
<1> QED
  BY <1>1, <1>2, <1>3 DEF Handle

LEMMA HandlerKeepsAttempt ==
  ASSUME PlaneInv, NEW w \in Workers, AttemptIsOpen(w), Handle(w)
  PROVE  AttemptIsOpen(w)'
<1> USE DEF AttemptIsOpen, Calling
<1>1. worker \in [Workers -> WorkerRecords] /\ worker[w] \in WorkerRecords
  BY DEF PlaneInv, PlaneTypes
<1>2. LedgerTypeOK /\ RowsAgree
  BY DEF PlaneInv, LedgerInv
<1>3. CASE DeadLetter(w) \/ SkipCall(w) \/ Call(w) \/ Await(w) \/ RecordFailure(w) \/ Acknowledge(w)
  BY <1>1, <1>3 DEF DeadLetter, SkipCall, Call, Await, RecordFailure, Acknowledge, Goto, Rest,
                    Resting, WorkerRecords, ledgerVars
<1>4. CASE Complete(w)
  BY <1>1, <1>4 DEF Complete, Goto, WorkerRecords
<1>5. CASE Attempt(w)
  <2>1. CASE RecordProviderAttempt(worker[w].lease) /\ Goto(w, "call")
    <3>1. worker[w].lease \in Executions /\ attempt[worker[w].lease] = "none"
      BY <1>5, HandlerHasLease DEF Attempt, Handling
    <3>2. attempt'[worker[w].lease] = "inflight"
      BY <1>2, <2>1, <3>1 DEF RecordProviderAttempt, LedgerTypeOK
    <3> QED
      BY <1>1, <2>1, <3>2 DEF Goto, WorkerRecords
  <2>2. CASE Goto(w, "fail")
    BY <1>1, <2>2 DEF Goto, WorkerRecords
  <2> QED
    BY <1>5, <2>1, <2>2 DEF Attempt
<1>6. CASE Claim(w)
  <2> DEFINE t == worker[w].task
             e == CHOOSE x \in Unused : TRUE
  <2>1. CASE /\ t # NoTask /\ Unused # {} /\ ClaimGranted(t, e)
             /\ worker' = [worker EXCEPT ![w].at = "attempt", ![w].lease = e]
    <3>1. e \in Executions /\ owner[e] = NoTask
      BY <2>1 DEF Unused
    <3> HIDE DEF e
    <3>2. attempt'[e] = "none"
      BY <1>2, <2>1, <3>1 DEF ClaimGranted, RowsAgree, LedgerTypeOK
    <3>3. worker'[w].at = "attempt" /\ worker'[w].lease = e
      BY <1>1, <2>1 DEF WorkerRecords
    <3> QED
      BY <3>2, <3>3
  <2>2. CASE Goto(w, "ack") \/ Rest(w)
    BY <1>1, <2>2 DEF Goto, Rest, Resting, WorkerRecords
  <2> QED
    BY <1>6, <2>1, <2>2 DEF Claim
<1> QED
  BY <1>3, <1>4, <1>5, <1>6 DEF Handle

LEMMA AttemptStep ==
  ASSUME PlaneInv, LeaseInv, AttemptInv, [Next]_vars
  PROVE  AttemptInv'
<1>1. [LedgerNext]_ledgerVars
  BY StepIsTransaction
<1>2. ASSUME attempt' = attempt, NEW v \in Workers, worker'[v] = worker[v] PROVE AttemptIsOpen(v)'
  BY <1>2 DEF AttemptInv, AttemptIsOpen
<1>3. \A v \in Workers : AttemptIsOpen(v)'
  <2>1. CASE EnvironmentStep
    BY <1>2, <2>1, EnvironmentMovesNoWorker
  <2>2. ASSUME NEW w \in Workers, Round(w), NEW v \in Workers PROVE AttemptIsOpen(v)'
    <3>1. CASE v = w
      <4>1. worker'[w].lease = NoExecution
        BY <2>2, RoundsHoldNoLease
      <4>2. worker'[w].at \notin Handling
        BY <4>1, <2>2, PlaneStep, HandlerHasLease, LedgerAssumption DEF PlaneInv, GoodWorker
      <4> QED
        BY <3>1, <4>2 DEF AttemptIsOpen, Calling, Handling
    <3>2. CASE v # w
      BY <1>2, <2>2, <3>2, RoundsLeaveAttempts, OthersStay DEF WorkerStep, Round
    <3> QED
      BY <3>1, <3>2
  <2>3. ASSUME NEW w \in Workers, Handle(w), NEW v \in Workers PROVE AttemptIsOpen(v)'
    <3>1. CASE v = w
      BY <2>3, <3>1, HandlerKeepsAttempt DEF AttemptInv
    <3>2. CASE v # w
      <4>1. worker'[v] = worker[v]
        BY <2>3, <3>2, OthersStay DEF WorkerStep
      <4> SUFFICES ASSUME worker[v].at \in Calling \cup {"attempt"} PROVE AttemptIsOpen(v)'
        BY <4>1 DEF AttemptIsOpen
      <4>2. worker[v].lease \in Executions /\ worker[v].lease # worker[w].lease
        BY <3>2, HandlerHasLease, LedgerAssumption DEF Handling, Calling, LeaseInv, LeasesDiffer
      <4> QED
        BY <2>3, <4>1, <4>2, OtherAttempts DEF AttemptInv, AttemptIsOpen
    <3> QED
      BY <3>1, <3>2
  <2> QED
    BY <2>1, <2>2, <2>3, StepIsOfWorkerOrEnvironment DEF WorkerStep, Round
<1>4. SuccessClosesAttempt'
  <2>1. ASSUME NEW t \in Tasks, status[t] = "succeeded"
        PROVE  attempt'[execution'[t]] \in {"completed", "outcome_unknown"}
    BY <1>1, <2>1, SuccessesStand DEF AttemptInv
  <2>2. CASE NoNewSuccess
    BY <2>1, <2>2 DEF NoNewSuccess, SuccessClosesAttempt
  <2>3. ASSUME NEW w \in Workers, worker[w].at = "complete", RecordCompletion(worker[w].lease)
        PROVE  SuccessClosesAttempt'
    <3> DEFINE e == worker[w].lease
    <3>1. e \in Executions /\ attempt[e] \in {"inflight", "outcome_unknown"}
      BY <2>3, HandlerHasLease DEF Handling, AttemptInv, AttemptIsOpen, Calling
    <3>2. attempt'[e] \in {"completed", "outcome_unknown"} /\ execution' = execution
      BY <2>3, <3>1 DEF RecordCompletion, PlaneInv, LedgerInv, LedgerTypeOK
    <3>3. \A t \in Tasks : status'[t] = "succeeded" => status[t] = "succeeded" \/ execution[t] = e
      BY <2>3 DEF RecordCompletion, HoldsLease, PlaneInv, LedgerInv, LedgerTypeOK
    <3> QED
      BY <2>1, <3>2, <3>3 DEF SuccessClosesAttempt
  <2> QED
    BY <2>2, <2>3, OnlyCompletionSucceeds
<1> QED
  BY <1>3, <1>4 DEF AttemptInv

(* A succeeded task names an attempt that was closed, as completed or as   *)
(* uncertain, whatever two workers with copies of its message, late        *)
(* failures, crashes and stalls do in between.                             *)
THEOREM SuccessesCloseAttempts == Spec => []SuccessClosesAttempt
<1>1. Init => AttemptInv
  BY DEF Init, LedgerInit, Resting, AttemptInv, AttemptIsOpen, Calling, SuccessClosesAttempt
<1>2. PlaneInv /\ LeaseInv /\ AttemptInv /\ [Next]_vars => AttemptInv'
  BY AttemptStep
<1> QED
  BY <1>1, <1>2, PlaneInvariant, LeaseInvariant, PTL DEF Spec, AttemptInv

-----------------------------------------------------------------------------
(* The last copy of a message.  A worker acknowledges as recovery only     *)
(* messages of settled tasks, and as the executor of a task only when the  *)
(* task is settled; every other step that takes a copy from one list puts  *)
(* it on the other or leaves the message invalid and unnamed.              *)

AckIsEarned(w) ==
  LET r == worker[w] IN
  /\ r.at = "acknowledge" => Terminal(r.message)
  /\ r.at = "ack" /\ r.lease # NoExecution => \A t \in Tasks : execution[t] = r.lease => Terminal(t)

AckInv == \A w \in Workers : AckIsEarned(w)

(* A task comes to name an execution only when that is generated.          *)
LEMMA ExecutionsAreFresh ==
  ASSUME LedgerInv, [LedgerNext]_ledgerVars, NEW e \in Executions, owner[e] # NoTask,
         NEW t \in Tasks, execution'[t] = e
  PROVE  execution[t] = e
<1> USE DEF LedgerInv, LedgerTypeOK
<1>1. ASSUME NEW u \in Tasks, RecordQueuedTask(u) \/ LeaseExpires(u) PROVE execution[t] = e
  BY <1>1 DEF RecordQueuedTask, LeaseExpires
<1>2. ASSUME NEW u \in Tasks, RecoverDelivery(u) PROVE execution[t] = e
  BY <1>2, LedgerAssumption DEF RecoverDelivery
<1>3. ASSUME NEW u \in Tasks, NEW f \in Executions, ClaimUncertain(u, f) \/ ClaimGranted(u, f)
      PROVE  execution[t] = e
  BY <1>3 DEF ClaimUncertain, ClaimGranted
<1>4. ASSUME NEW f \in Executions, RecordProviderAttempt(f) \/ RecordCompletion(f) \/ RecordFailed(f)
      PROVE  execution[t] = e
  BY <1>4 DEF RecordProviderAttempt, RecordCompletion, RecordFailed
<1>5. ASSUME NEW S \in SUBSET Tasks, ReapOrphans(S) PROVE execution[t] = e
  BY <1>5 DEF ReapOrphans
<1>6. CASE UNCHANGED ledgerVars
  BY <1>6 DEF ledgerVars
<1> QED
  BY <1>1, <1>2, <1>3, <1>4, <1>5, <1>6 DEF LedgerNext, ClaimRefused

(* The handler that concludes an execution settles the task that names it. *)
LEMMA ConclusionSettles ==
  ASSUME PlaneInv, NEW w \in Workers, worker[w].at \in Handling,
         RecordCompletion(worker[w].lease) \/ RecordFailed(worker[w].lease),
         NEW t \in Tasks, execution'[t] = worker[w].lease
  PROVE  Terminal(t)'
<1> DEFINE e == worker[w].lease
<1> USE DEF PlaneInv, LedgerInv, LedgerTypeOK, Terminal
<1>1. e \in Executions /\ execution[t] = e
  BY HandlerHasLease DEF RecordCompletion, RecordFailed
<1>2. owner[e] = t /\ status[t] \in {"running", "succeeded", "failed"}
  BY <1>1, LedgerAssumption DEF RowsAgree, TaskStatus
<1> HIDE DEF e
<1>3. status'[t] = IF status[t] = "running" THEN status'[t] ELSE status[t]
  BY <1>1, <1>2 DEF RecordCompletion, RecordFailed, HoldsLease, e
<1>4. status[t] = "running" => status'[t] \in {"succeeded", "failed"}
  BY <1>1, <1>2 DEF RecordCompletion, RecordFailed, HoldsLease, e
<1> QED
  BY <1>2, <1>3, <1>4

(* What a worker's own step makes it rely on.                              *)
LEMMA OwnAckIsEarned ==
  ASSUME PlaneInv, LeaseInv, AckInv, NEW w \in Workers, WorkerStep(w)
  PROVE  AckIsEarned(w)'
<1> USE DEF AckIsEarned
<1>1. worker \in [Workers -> WorkerRecords] /\ worker[w] \in WorkerRecords
  BY DEF PlaneInv, PlaneTypes
<1>2. ASSUME Goto(w, "ack"), worker[w].lease = NoExecution PROVE AckIsEarned(w)'
  BY <1>1, <1>2 DEF Goto, WorkerRecords
<1>3. ASSUME NEW place \in {"call", "await", "complete", "fail"}, Goto(w, place) PROVE AckIsEarned(w)'
  BY <1>1, <1>3 DEF Goto, WorkerRecords
<1>4. ASSUME Rest(w) PROVE AckIsEarned(w)'
  BY <1>1, <1>4 DEF Rest, Resting
<1>5. ASSUME NEW m, NEW place \in {"publish", "recover"}, DropItem(w, m, place) PROVE AckIsEarned(w)'
  BY <1>1, <1>5 DEF DropItem, WorkerRecords
<1>6. CASE Dispatch(w)
  <2>1. ASSUME NEW t \in Tasks, Publish(w, t) PROVE AckIsEarned(w)'
    <3>1. worker' = [worker EXCEPT ![w].at = "mark", ![w].message = t] \/ DropItem(w, t, "publish")
      BY <2>1 DEF Publish
    <3> QED
      BY <1>1, <1>5, <3>1 DEF WorkerRecords
  <2>2. CASE ClaimPendingOutbox(w)
    BY <1>1, <2>2 DEF ClaimPendingOutbox, WorkerRecords
  <2> QED
    BY <1>4, <1>5, <1>6, <2>1, <2>2 DEF Dispatch, PublishDone, MarkOutboxDelivered
<1>7. CASE CleanupTerminalOutbox(w)
  BY <1>7 DEF CleanupTerminalOutbox, AckInv, ledgerVars, Terminal
<1>8. CASE StartRecovery(w) \/ Receive(w) \/ Crash(w) \/ Restart(w)
  BY <1>1, <1>8 DEF StartRecovery, Receive, Crash, Restart, Rest, Resting, WorkerRecords
<1>9. CASE Recover(w)
  <2>1. ASSUME NEW m \in Messages, RecoverInvalid(w, m) PROVE AckIsEarned(w)'
    BY <1>1, <1>5, <2>1 DEF RecoverInvalid, WorkerRecords
  <2>2. ASSUME NEW m \in Messages, RecoverRow(w, m) PROVE AckIsEarned(w)'
    <3>1. CASE worker' = [worker EXCEPT ![w].at = "requeue", ![w].message = m]
      BY <1>1, <3>1 DEF WorkerRecords
    <3>2. CASE /\ Terminal(m) /\ UNCHANGED ledgerVars
               /\ worker' = [worker EXCEPT ![w].at = "acknowledge", ![w].message = m]
      BY <1>1, <3>2 DEF WorkerRecords, Terminal, ledgerVars
    <3> QED
      BY <1>5, <2>2, <3>1, <3>2 DEF RecoverRow
  <2>3. CASE RequeueStaleDelivery(w) \/ AcknowledgeProcessingDelivery(w)
    BY <1>5, <2>3 DEF RequeueStaleDelivery, AcknowledgeProcessingDelivery
  <2>4. CASE ReapReadWaiting(w) \/ ReapReadProcessing(w) \/ ReapRows(w)
    BY <1>1, <1>4, <2>4 DEF ReapReadWaiting, ReapReadProcessing, ReapRows, WorkerRecords
  <2> QED
    BY <1>9, <2>1, <2>2, <2>3, <2>4 DEF Recover
<1>10. CASE Handle(w)
  <2>1. CASE Claim(w) \/ DeadLetter(w)
    <3>1. worker[w].lease = NoExecution
      BY <2>1 DEF Claim, DeadLetter, LeaseInv, LeaseIsOwn, Holding, Handling
    <3>2. \/ Goto(w, "ack") \/ Rest(w)
          \/ \E e : worker' = [worker EXCEPT ![w].at = "attempt", ![w].lease = e]
      BY <2>1 DEF Claim, DeadLetter
    <3> QED
      BY <1>1, <1>2, <1>4, <3>1, <3>2 DEF WorkerRecords
  <2>2. CASE Attempt(w) \/ Call(w) \/ Await(w) \/ SkipCall(w)
    BY <1>3, <2>2 DEF Attempt, Call, Await, SkipCall
  <2>3. ASSUME Goto(w, "ack"), worker[w].at \in Handling,
               RecordCompletion(worker[w].lease) \/ RecordFailed(worker[w].lease)
        PROVE  AckIsEarned(w)'
    <3>1. worker'[w].lease = worker[w].lease /\ worker'[w].at = "ack"
      BY <1>1, <2>3 DEF Goto, WorkerRecords
    <3> QED
      BY <2>3, <3>1, ConclusionSettles
  <2>4. CASE Complete(w) \/ RecordFailure(w)
    BY <1>3, <1>4, <2>3, <2>4 DEF Complete, RecordFailure, Handling
  <2> QED
    BY <1>4, <1>10, <2>1, <2>2, <2>4 DEF Handle, Acknowledge
<1> QED
  BY <1>6, <1>7, <1>8, <1>9, <1>10 DEF WorkerStep

LEMMA AckStep ==
  ASSUME PlaneInv, LeaseInv, AckInv, [Next]_vars
  PROVE  AckInv'
<1>1. [LedgerNext]_ledgerVars
  BY StepIsTransaction
<1>2. \A t \in Tasks : Terminal(t) => Terminal(t)'
  BY <1>1, SettledStep DEF PlaneInv, LedgerInv, SettledKept, Terminal
<1>3. ASSUME NEW v \in Workers, worker'[v] = worker[v] PROVE AckIsEarned(v)'
  <2> DEFINE r == worker[v]
  <2>1. r \in WorkerRecords /\ AckIsEarned(v) /\ GoodWorker(v)
    BY WorkerIsRecord DEF AckInv
  <2>2. r.at = "acknowledge" => Terminal(r.message)'
    BY <1>2, <1>3, <2>1, NamedIsMessage DEF AckIsEarned, GoodWorker, Terminal
  <2>3. ASSUME r.at = "ack", r.lease # NoExecution, NEW t \in Tasks, execution'[t] = r.lease
        PROVE  Terminal(t)'
    <3>1. r.lease \in Executions /\ owner[r.lease] # NoTask
      BY <2>1, <2>3, LedgerAssumption DEF WorkerRecords, LeaseInv, LeaseIsOwn
    <3>2. execution[t] = r.lease
      BY <1>1, <2>3, <3>1, ExecutionsAreFresh DEF PlaneInv
    <3> QED
      BY <1>2, <2>1, <2>3, <3>2 DEF AckIsEarned
  <2> QED
    BY <1>3, <2>2, <2>3 DEF AckIsEarned
<1>4. CASE EnvironmentStep
  BY <1>3, <1>4, EnvironmentMovesNoWorker DEF AckInv
<1>5. ASSUME NEW w \in Workers, WorkerStep(w) PROVE AckInv'
  BY <1>3, <1>5, OwnAckIsEarned, OthersStay DEF AckInv
<1> QED
  BY <1>4, <1>5, StepIsOfWorkerOrEnvironment

(* A message leaves Redis by an acknowledgement, or goes to the dead-      *)
(* letter list because it is unnamed.                                      *)
LEMMA MessagesDisappear ==
  ASSUME PlaneInv, [Next]_vars, NEW t \in Named, InRedis(t), ~ InRedis(t)'
  PROVE  \E w \in Workers : worker[w].at \in {"acknowledge", "ack"} /\ worker[w].message = t
<1> DEFINE Fine == \E w \in Workers : worker[w].at \in {"acknowledge", "ack"} /\ worker[w].message = t
<1> SUFFICES Fine
  OBVIOUS
<1>1. /\ waiting \in Seq(Messages) /\ processing \in [Messages -> Nat]
      /\ t \in Messages /\ processing[t] \in Nat
  BY ListTypes, NamedIsMessage
<1>2. CASE UNCHANGED <<waiting, processing>>
  BY <1>2 DEF InRedis, InWaiting
<1>3. ASSUME NEW x, x # t, processing' = Remove(processing, x), waiting' = waiting PROVE FALSE
  BY <1>1, <1>3, CopiesAreBags DEF InRedis, InWaiting
<1>4. ASSUME NEW x \in Messages, waiting' = Append(waiting, x), processing' = processing PROVE FALSE
  BY <1>1, <1>4, AppendKeepsWaiting DEF InRedis
<1>5. CASE EnvironmentStep
  <2>1. ASSUME NEW u \in Tasks, CreateTask(u) \/ LeaseRunsOut(u) \/ OutboxClaimLapses(u) \/ TaskAges(u)
        PROVE  Fine
    BY <1>2, <2>1 DEF CreateTask, LeaseRunsOut, OutboxClaimLapses, TaskAges, redisVars
  <2>2. ASSUME NEW x \in Messages, ProducerPush(x) PROVE Fine
    BY <1>4, <2>2 DEF ProducerPush
  <2>3. CASE UNCHANGED vars
    BY <1>2, <2>3 DEF vars, redisVars
  <2> QED
    BY <1>5, <2>1, <2>2, <2>3 DEF EnvironmentStep
<1>6. ASSUME NEW w \in Workers, Dispatch(w) PROVE Fine
  <2>1. ASSUME NEW u \in Tasks, Publish(w, u) PROVE Fine
    <3>1. u \in Messages
      BY <2>1, NamedIsMessage DEF Publish
    <3>2. processing' = processing /\ (waiting' = waiting \/ waiting' = Append(waiting, u))
      BY <2>1 DEF Publish
    <3> QED
      BY <1>2, <1>4, <3>1, <3>2
  <2>2. CASE ClaimPendingOutbox(w) \/ PublishDone(w) \/ MarkOutboxDelivered(w)
    BY <1>2, <2>2 DEF ClaimPendingOutbox, PublishDone, MarkOutboxDelivered, redisVars
  <2> QED
    BY <1>6, <2>1, <2>2 DEF Dispatch
<1>7. ASSUME NEW w \in Workers, CleanupTerminalOutbox(w) \/ StartRecovery(w) \/ Crash(w) \/ Restart(w)
      PROVE  Fine
  BY <1>2, <1>7 DEF CleanupTerminalOutbox, StartRecovery, Crash, Restart, redisVars
<1>8. ASSUME NEW w \in Workers, Recover(w) PROVE Fine
  <2>1. ASSUME NEW x \in Messages, RecoverInvalid(w, x) PROVE Fine
    BY <1>2, <1>3, <2>1 DEF RecoverInvalid
  <2>2. ASSUME NEW x \in Messages, RecoverRow(w, x) PROVE Fine
    BY <1>2, <2>2 DEF RecoverRow, redisVars
  <2>3. CASE RequeueStaleDelivery(w)
    <3>1. PICK x \in Messages : x = worker[w].message
      BY <2>3, NamedIsMessage, WorkerIsRecord DEF RequeueStaleDelivery, GoodWorker
    <3>2. CASE processing' = Remove(processing, x) /\ waiting' = <<x>> \o waiting
      <4>1. InWaiting(x)' /\ \A m \in Messages : InWaiting(m) => InWaiting(m)'
        BY <1>1, <3>1, <3>2, PrependKeepsWaiting
      <4>2. x # t => processing'[t] = processing[t]
        BY <1>1, <3>2, CopiesAreBags
      <4> QED
        BY <1>1, <4>1, <4>2 DEF InRedis
    <3> QED
      BY <1>2, <2>3, <3>1, <3>2 DEF RequeueStaleDelivery
  <2>4. CASE AcknowledgeProcessingDelivery(w)
    BY <1>2, <1>3, <2>4 DEF AcknowledgeProcessingDelivery
  <2>5. CASE ReapReadWaiting(w) \/ ReapReadProcessing(w) \/ ReapRows(w)
    BY <1>2, <2>5 DEF ReapReadWaiting, ReapReadProcessing, ReapRows, redisVars
  <2> QED
    BY <1>8, <2>1, <2>2, <2>3, <2>4, <2>5 DEF Recover
<1>9. ASSUME NEW w \in Workers, Receive(w) PROVE FALSE
  <2> DEFINE x == Head(waiting)
  <2>1. waiting # <<>> /\ waiting' = Tail(waiting) /\ processing' = Add(processing, x)
    BY <1>9 DEF Receive
  <2>2. x \in Messages
    BY <1>1, <2>1
  <2> HIDE DEF x
  <2>3. processing'[t] >= processing[t] /\ processing'[t] \in Nat /\ (x = t => processing'[t] > 0)
    BY <1>1, <2>1, <2>2, CopiesAreBags
  <2>4. x # t /\ InWaiting(t) => InWaiting(t)'
    BY <1>1, <2>1, TailKeepsWaiting DEF x
  <2> QED
    BY <1>1, <2>3, <2>4 DEF InRedis
<1>10. ASSUME NEW w \in Workers, Handle(w) PROVE Fine
  <2>1. CASE Acknowledge(w)
    BY <1>3, <2>1 DEF Acknowledge
  <2>2. CASE \/ DeadLetter(w) \/ Claim(w) \/ Attempt(w) \/ Call(w) \/ Await(w) \/ SkipCall(w)
             \/ Complete(w) \/ RecordFailure(w)
    BY <1>2, <2>2 DEF DeadLetter, Claim, Attempt, Call, Await, SkipCall, Complete, RecordFailure, redisVars
  <2> QED
    BY <1>10, <2>1, <2>2 DEF Handle
<1> QED
  BY <1>5, <1>6, <1>7, <1>8, <1>9, <1>10, StepIsOfWorkerOrEnvironment DEF WorkerStep

(* For any number of workers, failures and stalls, the message of an       *)
(* unsettled task leaves Redis only by the hands of a handler that does    *)
(* not hold the task's lease.                                              *)
THEOREM LastCopiesOutliveWork == Spec => LastCopyOutlivesWork
<1> DEFINE Kept ==
      \A t \in Named :
        InRedis(t) /\ ~ InRedis(t)' /\ ~ Terminal(t) =>
          \E w \in Workers :
            /\ worker[w].at = "ack" /\ worker[w].message = t
            /\ worker[w].lease = NoExecution \/ worker[w].lease # execution[t]
<1>1. Init => AckInv
  BY DEF Init, Resting, AckInv, AckIsEarned
<1>2. PlaneInv /\ LeaseInv /\ AckInv /\ [Next]_vars => AckInv'
  BY AckStep
<1>3. ASSUME PlaneInv, AckInv, [Next]_vars PROVE [Kept]_vars
  <2> SUFFICES ASSUME NEW t \in Named, InRedis(t), ~ InRedis(t)', ~ Terminal(t)
               PROVE  \E w \in Workers :
                        /\ worker[w].at = "ack" /\ worker[w].message = t
                        /\ worker[w].lease = NoExecution \/ worker[w].lease # execution[t]
    OBVIOUS
  <2>1. PICK w \in Workers : worker[w].at \in {"acknowledge", "ack"} /\ worker[w].message = t
    BY <1>3, MessagesDisappear
  <2>2. worker[w].at = "ack"
    BY <1>3, <2>1 DEF AckInv, AckIsEarned
  <2> QED
    BY <1>3, <2>1, <2>2, NamedIsMessage DEF AckInv, AckIsEarned
<1> QED
  BY <1>1, <1>2, <1>3, PlaneInvariant, LeaseInvariant, PTL DEF Spec, LastCopyOutlivesWork

-----------------------------------------------------------------------------
(* Open attempts, as long as no live worker outlasts its lease: the only   *)
(* open attempt of a task that a worker holds a lease of is that worker's. *)

DoubtIsOwn(w) ==
  worker[w].lease # NoExecution => Inflight(owner[worker[w].lease]) \subseteq {worker[w].lease}

DoubtInv == \A w \in Workers : DoubtIsOwn(w)

(* An attempt is opened by the handler that holds its execution.           *)
LEMMA AttemptsOpen ==
  ASSUME PlaneInv, [Next]_vars, NEW e \in Executions, attempt'[e] = "inflight", attempt[e] # "inflight"
  PROVE  \E w \in Workers : worker[w].lease = e /\ worker'[w].lease = e
<1>1. ~ EnvironmentStep
  BY EnvironmentMovesNoWorker
<1>2. PICK w \in Workers : WorkerStep(w)
  BY <1>1, StepIsOfWorkerOrEnvironment
<1>3. Handle(w)
  BY <1>2, RoundsLeaveAttempts DEF WorkerStep, Round
<1>4. e = worker[w].lease
  BY <1>3, OtherAttempts
<1> USE DEF PlaneInv, LedgerInv, LedgerTypeOK, ledgerVars
<1>5. CASE Attempt(w)
  BY <1>4, <1>5 DEF Attempt, Goto, PlaneTypes, WorkerRecords
<1>6. CASE Claim(w)
  <2> DEFINE x == CHOOSE y \in Unused : TRUE
  <2>1. \/ ClaimGranted(worker[w].task, x) \/ UNCHANGED attempt
        \/ \E f \in Executions : ClaimUncertain(worker[w].task, f)
    BY <1>6 DEF Claim, ClaimRefused
  <2> HIDE DEF x
  <2> QED
    BY <2>1 DEF ClaimGranted, ClaimUncertain
<1>7. CASE Complete(w) \/ RecordFailure(w)
  BY <1>7 DEF Complete, RecordFailure, RecordCompletion, RecordFailed
<1>8. CASE DeadLetter(w) \/ Call(w) \/ Await(w) \/ SkipCall(w) \/ Acknowledge(w)
  BY <1>8 DEF DeadLetter, Call, Await, SkipCall, Acknowledge
<1> QED
  BY <1>2, <1>3, <1>4, <1>5, <1>6, <1>7, <1>8 DEF Handle

(* A lease that is new was granted while no attempt of its task was open.  *)
LEMMA LeasesAreGrantedWithoutDoubt ==
  ASSUME PlaneInv, [Next]_vars, NEW w \in Workers,
         worker'[w].lease # worker[w].lease, worker'[w].lease # NoExecution
  PROVE  \E t \in Tasks : owner'[worker'[w].lease] = t /\ Inflight(t)' = {}
<1>1. worker' # worker
  OBVIOUS
<1>2. PICK v \in Workers : WorkerStep(v)
  BY <1>1, EnvironmentMovesNoWorker, StepIsOfWorkerOrEnvironment
<1>3. v = w
  BY <1>2, OthersStay
<1>4. Handle(w)
  BY <1>2, <1>3, RoundsKeep DEF WorkerStep, Keeps
<1> USE DEF PlaneInv, PlaneTypes, LedgerInv, LedgerTypeOK
<1>5. ~ Attempt(w) /\ ~ Complete(w) /\ ~ RecordFailure(w)
  BY DEF Attempt, Complete, RecordFailure, Goto, Rest, Resting, WorkerRecords
<1>6. Claim(w)
  BY <1>4, <1>5 DEF Handle, DeadLetter, Call, Await, SkipCall, Acknowledge, Goto, Rest, Resting,
                    WorkerRecords
<1>7. PICK t \in Tasks, e \in Executions :
        /\ owner[e] = NoTask /\ ClaimGranted(t, e)
        /\ worker' = [worker EXCEPT ![w].at = "attempt", ![w].lease = e]
  <2>1. PICK x : x = CHOOSE y \in Unused : TRUE
    OBVIOUS
  <2>2. /\ worker[w].task # NoTask /\ Unused # {} /\ ClaimGranted(worker[w].task, x)
        /\ worker' = [worker EXCEPT ![w].at = "attempt", ![w].lease = x]
    BY <1>6, <2>1 DEF Claim, Goto, Rest, Resting, WorkerRecords
  <2>3. worker[w].task \in Tasks /\ x \in Executions /\ owner[x] = NoTask
    BY <2>1, <2>2 DEF WorkerRecords, Unused
  <2> QED
    BY <2>2, <2>3, Zenon
<1>8. owner'[e] = t /\ worker'[w].lease = e
  BY <1>7 DEF ClaimGranted, WorkerRecords
<1>9. ASSUME NEW f \in Executions, owner'[f] = t, attempt'[f] = "inflight" PROVE FALSE
  <2>1. attempt[f] = "inflight" /\ Inflight(t) = {} /\ owner' = [owner EXCEPT ![e] = t]
    BY <1>7, <1>9 DEF ClaimGranted
  <2>2. f # e
    BY <1>7, <2>1 DEF RowsAgree
  <2> QED
    BY <1>7, <1>9, <2>1, <2>2 DEF Inflight
<1>10. Inflight(t)' = {}
  <2>1. Inflight(t)' = {f \in Executions : owner'[f] = t /\ attempt'[f] = "inflight"}
    BY DEF Inflight
  <2> QED
    BY <1>9, <2>1
<1> QED
  BY <1>8, <1>10

LEMMA DoubtStep ==
  ASSUME PlaneInv, SoleInv, SoleInv', DoubtInv, [Next]_vars
  PROVE  DoubtInv'
<1>1. [LedgerNext]_ledgerVars
  BY StepIsTransaction
<1> SUFFICES ASSUME NEW w \in Workers, worker'[w].lease # NoExecution,
                    NEW f \in Executions, owner'[f] = owner'[worker'[w].lease], attempt'[f] = "inflight"
             PROVE  f = worker'[w].lease
  BY DEF DoubtInv, DoubtIsOwn, Inflight
<1>2. PICK e \in Executions, t \in Tasks : e = worker'[w].lease /\ owner'[e] = t
  <2>1. worker'[w].lease \in Executions
    BY PlaneStep, WorkerIsRecord DEF PlaneInv, PlaneTypes, WorkerRecords
  <2> QED
    BY <2>1 DEF SoleInv, LeaseIsKept
<1>3. CASE worker[w].lease # e
  BY <1>2, <1>3, LeasesAreGrantedWithoutDoubt DEF Inflight
<1>4. CASE worker[w].lease = e /\ attempt[f] = "inflight"
  <2>1. owner[e] \in Tasks /\ owner[f] # NoTask
    BY <1>2, <1>4, LedgerAssumption DEF SoleInv, LeaseIsKept, PlaneInv, LedgerInv, RowsAgree
  <2>2. owner'[e] = owner[e] /\ owner'[f] = owner[f]
    BY <1>1, <2>1, LedgerGrows, LedgerAssumption DEF PlaneInv
  <2> QED
    BY <1>2, <1>4, <2>2 DEF DoubtInv, DoubtIsOwn, Inflight
<1>5. CASE attempt[f] # "inflight"
  <2>1. PICK v \in Workers : worker'[v].lease = f
    BY <1>5, AttemptsOpen
  <2>2. f # NoExecution
    BY LedgerAssumption
  <2> QED
    BY <1>2, <2>1, <2>2 DEF SoleInv, LeaseIsKept
<1> QED
  BY <1>3, <1>4, <1>5

(* A worker about to send a request has the only open attempt of its task: *)
(* for any number of workers, crashes and failed calls, if only no live    *)
(* worker outlasts its lease.                                              *)
THEOREM NoCallsInDoubt == ASSUME ~ Stalls PROVE Spec => []NoCallInDoubt
<1>1. Init => DoubtInv
  BY DEF Init, Resting, DoubtInv, DoubtIsOwn
<1>2. PlaneInv /\ SoleInv /\ [Next]_vars => SoleInv'
  BY SoleStep
<1>3. PlaneInv /\ SoleInv /\ SoleInv' /\ DoubtInv /\ [Next]_vars => DoubtInv'
  BY DoubtStep
<1>4. PlaneInv /\ DoubtInv => NoCallInDoubt
  <2> SUFFICES ASSUME PlaneInv, DoubtInv, NEW w \in Workers, worker[w].at \in {"call", "await"}
               PROVE  Inflight(worker[w].task) \subseteq {worker[w].lease}
    BY DEF NoCallInDoubt
  <2>1. worker[w].lease # NoExecution /\ owner[worker[w].lease] = worker[w].task
    BY HandlerHasLease, LedgerAssumption DEF Handling
  <2> QED
    BY <2>1 DEF DoubtInv, DoubtIsOwn
<1> QED
  BY <1>1, <1>2, <1>3, <1>4, SoleInit, PlaneInvariant, PTL DEF Spec

-----------------------------------------------------------------------------
(* One request per task, as long as no process dies, no call fails and no  *)
(* live worker outlasts its lease: a running task has its executor then,   *)
(* so that no lease runs out, and a task keeps the execution it was called *)
(* for whatever duplicates of its message recovery puts into the queue.    *)

Unharmed == crashes = 0 /\ faults = 0

RunningIsExecuted ==
  \A t \in Tasks : status[t] = "running" =>
    \E w \in Workers : worker[w].at \in Handling /\ worker[w].lease = execution[t]

OnceInv ==
  /\ expired = {}
  /\ RunningIsExecuted
  /\ \A e \in called : owner[e] \in Tasks /\ execution[owner[e]] = e

LEMMA FailuresGrow ==
  ASSUME PlaneInv, [Next]_vars, Unharmed'
  PROVE  Unharmed
<1> USE DEF Fault, NoFault
<1>1. crashes \in Nat /\ faults \in Nat /\ crashes' \in Nat /\ faults' \in Nat
  BY PlaneStep, ControlPlaneAssumption DEF PlaneInv, PlaneTypes
<1>2. crashes' >= crashes /\ faults' >= faults
  <2>1. CASE EnvironmentStep
    BY <1>1, <2>1, EnvironmentMovesNoWorker
  <2>2. ASSUME NEW w \in Workers, Dispatch(w) \/ CleanupTerminalOutbox(w) \/ StartRecovery(w)
        PROVE  crashes' >= crashes /\ faults' >= faults
    BY <1>1, <2>2 DEF Dispatch, ClaimPendingOutbox, Publish, PublishDone, MarkOutboxDelivered,
                      CleanupTerminalOutbox, StartRecovery
  <2>3. ASSUME NEW w \in Workers, Recover(w) PROVE crashes' >= crashes /\ faults' >= faults
    BY <1>1, <2>3 DEF Recover, RecoverInvalid, RecoverRow, RequeueStaleDelivery,
                      AcknowledgeProcessingDelivery, ReapReadWaiting, ReapReadProcessing, ReapRows
  <2>4. ASSUME NEW w \in Workers, Receive(w) \/ Crash(w) \/ Restart(w)
        PROVE  crashes' >= crashes /\ faults' >= faults
    BY <1>1, <2>4 DEF Receive, Crash, Restart
  <2>5. ASSUME NEW w \in Workers, Handle(w) PROVE crashes' >= crashes /\ faults' >= faults
    BY <1>1, <2>5 DEF Handle, DeadLetter, Claim, Attempt, Call, Await, SkipCall, Complete,
                      RecordFailure, Acknowledge
  <2> QED
    BY <2>1, <2>2, <2>3, <2>4, <2>5, StepIsOfWorkerOrEnvironment DEF WorkerStep
<1> QED
  BY <1>1, <1>2 DEF Unharmed

(* A handler that moves on without an error keeps its lease or settles its *)
(* task.                                                                   *)
LEMMA ExecutorStays ==
  ASSUME PlaneInv, Unharmed', NEW w \in Workers, WorkerStep(w), worker[w].at \in Handling,
         NEW t \in Tasks, execution'[t] = worker[w].lease, status'[t] = "running"
  PROVE  worker'[w].at \in Handling /\ worker'[w].lease = worker[w].lease
<1> USE DEF Handling
<1>1. worker \in [Workers -> WorkerRecords] /\ worker[w] \in WorkerRecords
  BY DEF PlaneInv, PlaneTypes
<1>2. ASSUME NEW place \in {"call", "await", "complete", "fail"}, Goto(w, place)
      PROVE  worker'[w].at \in Handling /\ worker'[w].lease = worker[w].lease
  BY <1>1, <1>2 DEF Goto, WorkerRecords
<1>3. ~ Fault
  <2>1. faults \in Nat
    BY ControlPlaneAssumption DEF PlaneInv, PlaneTypes
  <2> QED
    BY <2>1 DEF Fault, Unharmed
<1>4. ~ Crash(w)
  <2>1. crashes \in Nat
    BY ControlPlaneAssumption DEF PlaneInv, PlaneTypes
  <2> QED
    BY <2>1 DEF Crash, Unharmed
<1>5. ~ RecordCompletion(worker[w].lease) /\ ~ RecordFailed(worker[w].lease)
  BY ConclusionSettles DEF Terminal
<1>6. Handle(w)
  <2>1. ~ Dispatch(w) /\ ~ CleanupTerminalOutbox(w) /\ ~ StartRecovery(w)
    BY DEF Dispatch, ClaimPendingOutbox, Publish, PublishDone, MarkOutboxDelivered,
           CleanupTerminalOutbox, StartRecovery
  <2>2. ~ Recover(w)
    BY DEF Recover, RecoverInvalid, RecoverRow, RequeueStaleDelivery, AcknowledgeProcessingDelivery,
           ReapReadWaiting, ReapReadProcessing, ReapRows
  <2>3. ~ Receive(w) /\ ~ Restart(w)
    BY DEF Receive, Restart
  <2> QED
    BY <1>4, <2>1, <2>2, <2>3 DEF WorkerStep
<1>7. ~ DeadLetter(w) /\ ~ Claim(w) /\ ~ Acknowledge(w)
  BY DEF DeadLetter, Claim, Acknowledge
<1>8. CASE Attempt(w) \/ Call(w) \/ Await(w) \/ SkipCall(w)
  BY <1>2, <1>8 DEF Attempt, Call, Await, SkipCall
<1>9. ~ Complete(w) /\ ~ RecordFailure(w)
  BY <1>3, <1>5 DEF Complete, RecordFailure
<1> QED
  BY <1>6, <1>7, <1>8, <1>9 DEF Handle

(* A task starts to run in the hands of the handler that claims it.        *)
LEMMA RunningBegins ==
  ASSUME PlaneInv, [Next]_vars, NEW t \in Tasks, status'[t] = "running", status[t] # "running"
  PROVE  \E w \in Workers : worker'[w].at \in Handling /\ worker'[w].lease = execution'[t]
<1> USE DEF PlaneInv, LedgerInv, LedgerTypeOK
<1>1. ASSUME UNCHANGED status PROVE FALSE
  BY <1>1
<1>2. ~ EnvironmentStep
  BY <1>1 DEF EnvironmentStep, CreateTask, RecordQueuedTask, LeaseRunsOut, LeaseExpires,
              OutboxClaimLapses, TaskAges, ProducerPush, vars, ledgerVars
<1>3. PICK w \in Workers : WorkerStep(w)
  BY <1>2, StepIsOfWorkerOrEnvironment
<1>4. CASE Claim(w)
  <2> DEFINE x == CHOOSE y \in Unused : TRUE
  <2>1. \/ /\ worker[w].task # NoTask /\ Unused # {} /\ ClaimGranted(worker[w].task, x)
           /\ worker' = [worker EXCEPT ![w].at = "attempt", ![w].lease = x]
        \/ UNCHANGED status
        \/ \E f \in Executions : ClaimUncertain(worker[w].task, f)
    BY <1>4 DEF Claim, ClaimRefused, ledgerVars
  <2> HIDE DEF x
  <2>2. ~ \E f \in Executions : ClaimUncertain(worker[w].task, f)
    BY DEF ClaimUncertain
  <2>3. /\ ClaimGranted(worker[w].task, x)
        /\ worker' = [worker EXCEPT ![w].at = "attempt", ![w].lease = x]
    BY <1>1, <2>1, <2>2
  <2>4. worker'[w].at = "attempt" /\ worker'[w].lease = x
    BY <2>3 DEF PlaneTypes, WorkerRecords
  <2>5. execution'[t] = x
    BY <2>3 DEF ClaimGranted
  <2> QED
    BY <2>4, <2>5 DEF Handling
<1>5. CASE Handle(w) /\ ~ Claim(w)
  <2>1. ASSUME NEW e, RecordCompletion(e) \/ RecordFailed(e) PROVE FALSE
    BY <2>1 DEF RecordCompletion, RecordFailed, HoldsLease
  <2> QED
    BY <1>1, <1>5, <2>1 DEF Handle, DeadLetter, Attempt, RecordProviderAttempt, Call, Await, SkipCall,
                            Complete, RecordFailure, Acknowledge, ledgerVars
<1>6. CASE Round(w)
  <2>1. CASE Dispatch(w) \/ CleanupTerminalOutbox(w) \/ StartRecovery(w)
    BY <1>1, <2>1 DEF Dispatch, ClaimPendingOutbox, Publish, PublishDone, MarkOutboxDelivered,
                      CleanupTerminalOutbox, StartRecovery, ledgerVars
  <2>2. ASSUME NEW m \in Messages, RecoverInvalid(w, m) \/ RecoverRow(w, m) PROVE FALSE
    BY <1>1, <2>2 DEF RecoverInvalid, RecoverRow, RecoverDelivery, ledgerVars
  <2>3. CASE \/ RequeueStaleDelivery(w) \/ AcknowledgeProcessingDelivery(w)
             \/ ReapReadWaiting(w) \/ ReapReadProcessing(w) \/ ReapRows(w)
    BY <1>1, <2>3 DEF RequeueStaleDelivery, AcknowledgeProcessingDelivery, ReapReadWaiting,
                      ReapReadProcessing, ReapRows, ReapOrphans, ledgerVars
  <2>4. CASE Receive(w) \/ Crash(w) \/ Restart(w)
    BY <1>1, <2>4 DEF Receive, Crash, Restart, ledgerVars
  <2> QED
    BY <1>6, <2>1, <2>2, <2>3, <2>4 DEF Round, Recover
<1> QED
  BY <1>3, <1>4, <1>5, <1>6 DEF WorkerStep, Round

(* The guard of LeaseRunsOut: no lease runs out under its executor.        *)
LEMMA NoLeaseRunsOut ==
  ASSUME ~ Stalls, PlaneInv, SoleInv, OnceInv, [Next]_vars
  PROVE  expired' = {}
<1>1. ASSUME NEW t \in Tasks, LeaseRunsOut(t) PROVE FALSE
  <2>1. status[t] = "running" /\ ~ Executing(t)
    BY <1>1 DEF LeaseRunsOut, LeaseExpires
  <2>2. PICK w \in Workers : worker[w].at \in Handling /\ worker[w].lease = execution[t]
    BY <2>1 DEF OnceInv, RunningIsExecuted
  <2>3. worker[w].lease # NoExecution
    BY <2>2, HandlerHasLease, LedgerAssumption
  <2> QED
    BY <2>1, <2>2, <2>3 DEF Executing
<1>2. CASE EnvironmentStep
  BY <1>1, <1>2 DEF EnvironmentStep, CreateTask, RecordQueuedTask, OutboxClaimLapses, TaskAges,
                    ProducerPush, vars, ledgerVars, OnceInv
<1>3. ASSUME NEW w \in Workers, WorkerStep(w) PROVE expired' \subseteq expired
  BY <1>3, RoundsKeep, HandlerKeeps DEF WorkerStep, Keeps, Leased
<1> QED
  BY <1>2, <1>3, StepIsOfWorkerOrEnvironment DEF OnceInv

(* A task that names an execution keeps it: no lease has run out.          *)
LEMMA ExecutionStays ==
  ASSUME LedgerInv, [LedgerNext]_ledgerVars, expired = {},
         NEW t \in Tasks, execution[t] # NoExecution
  PROVE  execution'[t] = execution[t]
<1> USE DEF LedgerInv, LedgerTypeOK
<1>1. status[t] \notin {"absent", "queued"}
  BY DEF RowsAgree
<1>2. ASSUME NEW u \in Tasks, RecordQueuedTask(u) \/ LeaseExpires(u) PROVE execution'[t] = execution[t]
  BY <1>2 DEF RecordQueuedTask, LeaseExpires
<1>3. ASSUME NEW u \in Tasks, RecoverDelivery(u) PROVE execution'[t] = execution[t]
  BY <1>1, <1>3 DEF RecoverDelivery, Recoverable
<1>4. ASSUME NEW u \in Tasks, NEW f \in Executions, ClaimUncertain(u, f) \/ ClaimGranted(u, f)
      PROVE  execution'[t] = execution[t]
  BY <1>1, <1>4 DEF ClaimUncertain, ClaimGranted
<1>5. ASSUME NEW f \in Executions, RecordProviderAttempt(f) \/ RecordCompletion(f) \/ RecordFailed(f)
      PROVE  execution'[t] = execution[t]
  BY <1>5 DEF RecordProviderAttempt, RecordCompletion, RecordFailed
<1>6. ASSUME NEW S \in SUBSET Tasks, ReapOrphans(S) PROVE execution'[t] = execution[t]
  BY <1>6 DEF ReapOrphans
<1>7. CASE UNCHANGED ledgerVars
  BY <1>7 DEF ledgerVars
<1> QED
  BY <1>2, <1>3, <1>4, <1>5, <1>6, <1>7 DEF LedgerNext, ClaimRefused

(* A request that leaves is that of a lease a worker holds.                *)
LEMMA CallsAreLeased ==
  ASSUME PlaneInv, [Next]_vars, NEW e \in called', e \notin called
  PROVE  \E w \in Workers : worker'[w].lease = e /\ e # NoExecution
<1> USE DEF historyVars
<1>1. ~ EnvironmentStep
  BY EnvironmentMovesNoWorker
<1>2. PICK w \in Workers : WorkerStep(w)
  BY <1>1, StepIsOfWorkerOrEnvironment
<1>3. called' = called \/ Call(w)
  <2>1. CASE Dispatch(w) \/ CleanupTerminalOutbox(w) \/ StartRecovery(w)
    BY <2>1 DEF Dispatch, ClaimPendingOutbox, Publish, PublishDone, MarkOutboxDelivered,
                CleanupTerminalOutbox, StartRecovery
  <2>2. CASE Recover(w)
    BY <2>2 DEF Recover, RecoverInvalid, RecoverRow, RequeueStaleDelivery,
                AcknowledgeProcessingDelivery, ReapReadWaiting, ReapReadProcessing, ReapRows
  <2>3. CASE Receive(w) \/ Crash(w) \/ Restart(w)
    BY <2>3 DEF Receive, Crash, Restart
  <2>4. CASE Handle(w) /\ ~ Call(w)
    BY <2>4 DEF Handle, DeadLetter, Claim, Attempt, Await, SkipCall, Complete, RecordFailure, Acknowledge
  <2> QED
    BY <1>2, <2>1, <2>2, <2>3, <2>4 DEF WorkerStep
<1>4. Call(w)
  BY <1>3
<1>5. worker[w].lease \in Executions
  BY <1>4, HandlerHasLease DEF Call, Handling
<1>6. e = worker[w].lease /\ Goto(w, "await")
  BY <1>4 DEF Call
<1> QED
  BY <1>5, <1>6, LedgerAssumption DEF Goto, PlaneInv, PlaneTypes, WorkerRecords

LEMMA OnceStep ==
  ASSUME ~ Stalls, PlaneInv, SoleInv, SoleInv', Unharmed => OnceInv, [Next]_vars
  PROVE  Unharmed' => OnceInv'
<1> SUFFICES ASSUME Unharmed' PROVE OnceInv'
  OBVIOUS
<1>1. OnceInv
  BY FailuresGrow
<1>2. [LedgerNext]_ledgerVars
  BY StepIsTransaction
<1>3. expired' = {}
  BY <1>1, NoLeaseRunsOut
<1>4. RunningIsExecuted'
  <2> SUFFICES ASSUME NEW t \in Tasks, status'[t] = "running"
               PROVE  \E w \in Workers : worker'[w].at \in Handling /\ worker'[w].lease = execution'[t]
    BY DEF RunningIsExecuted
  <2>1. CASE status[t] # "running"
    BY <2>1, RunningBegins
  <2>2. CASE status[t] = "running"
    <3>1. PICK w \in Workers : worker[w].at \in Handling /\ worker[w].lease = execution[t]
      BY <1>1, <2>2 DEF OnceInv, RunningIsExecuted
    <3>2. execution[t] # NoExecution
      BY <3>1, HandlerHasLease, LedgerAssumption
    <3>3. execution'[t] = worker[w].lease
      BY <1>1, <1>2, <3>1, <3>2, ExecutionStays DEF PlaneInv, OnceInv
    <3>4. CASE WorkerStep(w)
      BY <3>1, <3>3, <3>4, ExecutorStays
    <3>5. CASE worker'[w] = worker[w]
      BY <3>1, <3>3, <3>5
    <3> QED
      BY <3>4, <3>5, StepIsOfWorkerOrEnvironment, EnvironmentMovesNoWorker, OthersStay
  <2> QED
    BY <2>1, <2>2
<1>5. ASSUME NEW e \in called' PROVE owner'[e] \in Tasks /\ execution'[owner'[e]] = e
  <2>1. CASE e \in called
    <3>1. e \in Executions /\ owner[e] \in Tasks /\ execution[owner[e]] = e
      BY <1>1, <2>1 DEF OnceInv, PlaneInv, PlaneTypes
    <3>2. owner'[e] = owner[e]
      BY <1>2, <3>1, LedgerGrows, LedgerAssumption DEF PlaneInv
    <3> QED
      BY <1>1, <1>2, <3>1, <3>2, ExecutionStays, LedgerAssumption DEF PlaneInv, OnceInv
  <2>2. CASE e \notin called
    BY <2>2, CallsAreLeased DEF SoleInv, LeaseIsKept
  <2> QED
    BY <2>1, <2>2
<1> QED
  BY <1>3, <1>4, <1>5 DEF OnceInv

(* Without failures no task is called for twice, however many workers      *)
(* recover, duplicate and handle its message at a time.                    *)
THEOREM NoFailureCallsTwice == ASSUME ~ Stalls PROVE Spec => []NoFailureOneCall
<1>1. Init => (Unharmed => OnceInv)
  BY DEF Init, LedgerInit, OnceInv, RunningIsExecuted
<1>2. PlaneInv /\ SoleInv /\ [Next]_vars => SoleInv'
  BY SoleStep
<1>3. PlaneInv /\ SoleInv /\ SoleInv' /\ (Unharmed => OnceInv) /\ [Next]_vars => (Unharmed => OnceInv)'
  BY OnceStep
<1>4. PlaneInv /\ (Unharmed => OnceInv) => NoFailureOneCall
  <2> SUFFICES ASSUME PlaneInv, Unharmed => OnceInv, crashes + faults = 0,
                      NEW e \in called, NEW f \in called, owner[e] = owner[f]
               PROVE  e = f
    BY DEF NoFailureOneCall
  <2>1. crashes \in Nat /\ faults \in Nat
    BY ControlPlaneAssumption DEF PlaneInv, PlaneTypes
  <2>2. Unharmed
    BY <2>1 DEF Unharmed
  <2> QED
    BY <2>2 DEF OnceInv
<1> QED
  BY <1>1, <1>2, <1>3, <1>4, SoleInit, PlaneInvariant, PTL DEF Spec

-----------------------------------------------------------------------------
(* The reaper, for any number of workers, failures and stalls: what it has *)
(* not seen in the lists it has read came into the task queue later, for   *)
(* a message reaches the processing list from the task queue only.         *)

SeenOrArrived(w) ==
  LET known == worker[w].seen \cup arrived[w] IN
  /\ worker[w].at = "reapProcessing" => \A t \in Named : InWaiting(t) => t \in known
  /\ worker[w].at = "reapRows" => \A t \in Named : InRedis(t) => t \in known

WatchInv == \A w \in Workers : SeenOrArrived(w)

(* BLMOVE is the only command that adds to the processing list.            *)
LEMMA ProcessingComesFromRedis ==
  ASSUME PlaneInv, [Next]_vars, NEW t \in Named, InRedis(t)'
  PROVE  InRedis(t) \/ InWaiting(t)'
<1>1. /\ waiting \in Seq(Messages) /\ processing \in [Messages -> Nat]
      /\ t \in Messages /\ processing[t] \in Nat
  BY ListTypes, NamedIsMessage
<1>2. ASSUME UNCHANGED processing PROVE InRedis(t) \/ InWaiting(t)'
  BY <1>2 DEF InRedis
<1>3. ASSUME NEW x, processing' = Remove(processing, x) PROVE InRedis(t) \/ InWaiting(t)'
  <2>1. processing'[t] = processing[t] \/ processing[t] > 0
    BY <1>1, <1>3 DEF Remove
  <2> QED
    BY <2>1 DEF InRedis
<1>4. CASE EnvironmentStep
  BY <1>2, <1>4, EnvironmentMovesNoWorker
<1> USE DEF redisVars
<1>5. ASSUME NEW w \in Workers, Dispatch(w) \/ CleanupTerminalOutbox(w) \/ StartRecovery(w)
      PROVE  UNCHANGED processing
  BY <1>5 DEF Dispatch, ClaimPendingOutbox, Publish, PublishDone, MarkOutboxDelivered,
              CleanupTerminalOutbox, StartRecovery
<1>6. ASSUME NEW w \in Workers, Recover(w)
      PROVE  UNCHANGED processing \/ \E x : processing' = Remove(processing, x)
  BY <1>6 DEF Recover, RecoverInvalid, RecoverRow, RequeueStaleDelivery,
              AcknowledgeProcessingDelivery, ReapReadWaiting, ReapReadProcessing, ReapRows
<1>7. ASSUME NEW w \in Workers, Crash(w) \/ Restart(w) PROVE UNCHANGED processing
  BY <1>7 DEF Crash, Restart
<1>8. ASSUME NEW w \in Workers, Receive(w) PROVE InRedis(t) \/ InWaiting(t)'
  <2>1. PICK x : x = Head(waiting)
    OBVIOUS
  <2>2. waiting # <<>> /\ processing' = Add(processing, x)
    BY <1>8, <2>1 DEF Receive
  <2>3. x # t => processing'[t] = processing[t]
    BY <1>1, <2>2 DEF Add
  <2>4. x = t => InWaiting(t)
    <3>1. 1 \in DOMAIN waiting /\ waiting[1] = x
      BY <1>1, <2>1, <2>2
    <3> QED
      BY <3>1 DEF InWaiting
  <2> QED
    BY <2>3, <2>4 DEF InRedis
<1>9. ASSUME NEW w \in Workers, Handle(w)
      PROVE  UNCHANGED processing \/ \E x : processing' = Remove(processing, x)
  BY <1>9 DEF Handle, DeadLetter, Claim, Attempt, Call, Await, SkipCall, Complete, RecordFailure,
              Acknowledge
<1> QED
  BY <1>2, <1>3, <1>4, <1>5, <1>6, <1>7, <1>8, <1>9, StepIsOfWorkerOrEnvironment DEF WorkerStep

(* How a reaper comes to where it stands.                                  *)
LEMMA ReapersMove ==
  ASSUME PlaneInv, NEW w \in Workers, WorkerStep(w), worker'[w].at \in Reaping
  PROVE  \/ ~ CleanupTerminalOutbox(w) /\ UNCHANGED redisVars /\ worker'[w].at = "reapProcessing"
            /\ worker'[w].seen = {t \in Named : InWaiting(t)}
         \/ ~ CleanupTerminalOutbox(w) /\ UNCHANGED redisVars /\ worker[w].at = "reapProcessing"
            /\ worker'[w].at = "reapRows"
            /\ worker'[w].seen = worker[w].seen \cup {t \in Named : processing[t] > 0}
         \/ CleanupTerminalOutbox(w)
<1> USE DEF Reaping
<1>1. worker \in [Workers -> WorkerRecords] /\ worker[w] \in WorkerRecords
  BY DEF PlaneInv, PlaneTypes
<1>2. CASE CleanupTerminalOutbox(w)
  BY <1>2
<1>3. CASE Dispatch(w) \/ StartRecovery(w)
  <2>1. ASSUME NEW t \in Tasks, Publish(w, t) PROVE FALSE
    BY <1>1, <2>1 DEF Publish, DropItem, WorkerRecords
  <2> QED
    BY <1>1, <1>3, <2>1 DEF Dispatch, ClaimPendingOutbox, PublishDone, MarkOutboxDelivered,
                            StartRecovery, DropItem, Rest, Resting, WorkerRecords
<1>4. ASSUME NEW m \in Messages, RecoverInvalid(w, m) \/ RecoverRow(w, m) PROVE FALSE
  BY <1>1, <1>4 DEF RecoverInvalid, RecoverRow, DropItem, WorkerRecords
<1>5. CASE RequeueStaleDelivery(w) \/ AcknowledgeProcessingDelivery(w) \/ ReapRows(w)
  BY <1>1, <1>5 DEF RequeueStaleDelivery, AcknowledgeProcessingDelivery, ReapRows, DropItem, Rest,
                    Resting, WorkerRecords
<1>6. CASE ReapReadWaiting(w)
  <2>1. ~ CleanupTerminalOutbox(w)
    BY <1>6 DEF ReapReadWaiting, CleanupTerminalOutbox
  <2> QED
    BY <1>1, <1>6, <2>1 DEF ReapReadWaiting, Rest, Resting, WorkerRecords
<1>7. CASE ReapReadProcessing(w)
  <2>1. ~ CleanupTerminalOutbox(w)
    BY <1>7 DEF ReapReadProcessing, CleanupTerminalOutbox
  <2> QED
    BY <1>1, <1>7, <2>1 DEF ReapReadProcessing, Rest, Resting, WorkerRecords
<1>8. CASE Receive(w) \/ Crash(w) \/ Restart(w)
  BY <1>1, <1>8 DEF Receive, Crash, Restart, Rest, Resting, WorkerRecords
<1>9. CASE Handle(w)
  <2>1. \/ \E place \in {"ack", "call", "await", "complete", "fail"} : Goto(w, place)
        \/ Rest(w)
        \/ \E e : worker' = [worker EXCEPT ![w].at = "attempt", ![w].lease = e]
    BY <1>9 DEF Handle, DeadLetter, Claim, Attempt, Call, Await, SkipCall, Complete, RecordFailure,
                Acknowledge
  <2> QED
    BY <1>1, <2>1 DEF Goto, Rest, Resting, WorkerRecords
<1> QED
  BY <1>2, <1>3, <1>4, <1>5, <1>6, <1>7, <1>8, <1>9 DEF WorkerStep, Recover

LEMMA WatchStep ==
  ASSUME PlaneInv, WatchInv, [WatchNext]_watchVars
  PROVE  WatchInv'
<1>1. [Next]_vars
  BY DEF WatchNext, watchVars
<1>2. ASSUME NEW w \in Workers, worker'[w].at \in Reaping, worker[w].at \in Reaping
      PROVE  \A t \in Named : t \in arrived[w] \/ (~ InWaiting(t) /\ InWaiting(t)') => t \in arrived'[w]
  <2>1. CASE Watch
    BY <1>2, <2>1 DEF Watch, Arrivals
  <2>2. CASE UNCHANGED watchVars
    BY <2>2 DEF watchVars, vars, redisVars, InWaiting
  <2> QED
    BY <2>1, <2>2 DEF WatchNext
<1>3. ASSUME NEW w \in Workers, worker'[w] = worker[w] PROVE SeenOrArrived(w)'
  <2>1. ASSUME worker[w].at = "reapProcessing", NEW t \in Named, InWaiting(t)'
        PROVE  t \in worker'[w].seen \cup arrived'[w]
    BY <1>2, <1>3, <2>1 DEF Reaping, WatchInv, SeenOrArrived
  <2>2. ASSUME worker[w].at = "reapRows", NEW t \in Named, InRedis(t)'
        PROVE  t \in worker'[w].seen \cup arrived'[w]
    <3>1. InRedis(t) \/ (~ InWaiting(t) /\ InWaiting(t)')
      BY <1>1, <2>2, ProcessingComesFromRedis DEF InRedis
    <3> QED
      BY <1>2, <1>3, <2>2, <3>1 DEF Reaping, WatchInv, SeenOrArrived
  <2> QED
    BY <1>3, <2>1, <2>2 DEF SeenOrArrived
<1>4. CASE EnvironmentStep
  BY <1>3, <1>4, EnvironmentMovesNoWorker DEF WatchInv
<1>5. ASSUME NEW w \in Workers, WorkerStep(w) PROVE SeenOrArrived(w)'
  <2>1. CASE CleanupTerminalOutbox(w)
    BY <1>3, <2>1 DEF CleanupTerminalOutbox
  <2>2. CASE ~ CleanupTerminalOutbox(w) /\ worker'[w].at = "reapProcessing"
    <3>1. UNCHANGED waiting /\ worker'[w].seen = {t \in Named : InWaiting(t)}
      BY <1>5, <2>2, ReapersMove DEF Reaping, redisVars
    <3> QED
      BY <2>2, <3>1 DEF SeenOrArrived, InWaiting
  <2>3. CASE ~ CleanupTerminalOutbox(w) /\ worker'[w].at = "reapRows"
    <3>1. /\ UNCHANGED <<waiting, processing>> /\ worker[w].at = "reapProcessing"
          /\ worker'[w].seen = worker[w].seen \cup {t \in Named : processing[t] > 0}
      BY <1>5, <2>3, ReapersMove DEF Reaping, redisVars
    <3>2. \A t \in Named : t \in arrived[w] => t \in arrived'[w]
      BY <1>2, <2>3, <3>1 DEF Reaping
    <3>3. ASSUME NEW t \in Named, InRedis(t)' PROVE t \in worker'[w].seen \cup arrived'[w]
      <4>1. InWaiting(t) \/ processing[t] > 0
        BY <3>1, <3>3 DEF InRedis, InWaiting
      <4> QED
        BY <3>1, <3>2, <4>1 DEF WatchInv, SeenOrArrived
    <3> QED
      BY <2>3, <3>3 DEF SeenOrArrived
  <2> QED
    BY <2>1, <2>2, <2>3 DEF SeenOrArrived
<1>6. ASSUME NEW w \in Workers, WorkerStep(w) PROVE WatchInv'
  BY <1>3, <1>5, <1>6, OthersStay DEF WatchInv
<1> QED
  BY <1>1, <1>4, <1>6, StepIsOfWorkerOrEnvironment

(* The step from queued to failed that closes no attempt is the reaper's.  *)
LEMMA ReapedByReaper ==
  ASSUME PlaneInv, [Next]_vars, NEW t \in Tasks, Reaped(t)
  PROVE  \E w \in Workers :
           worker[w].at = "reapRows" /\ worker'[w].at # "reapRows" /\ t \notin worker[w].seen
<1> DEFINE Fine ==
      \E w \in Workers :
        worker[w].at = "reapRows" /\ worker'[w].at # "reapRows" /\ t \notin worker[w].seen
<1> USE DEF PlaneInv, LedgerInv, LedgerTypeOK
<1>1. status[t] = "queued" /\ status'[t] = "failed" /\ attempt' = attempt
  BY DEF Reaped
<1>2. ASSUME UNCHANGED status PROVE FALSE
  BY <1>1, <1>2
<1>3. CASE EnvironmentStep
  BY <1>1, <1>3 DEF EnvironmentStep, CreateTask, RecordQueuedTask, LeaseRunsOut, LeaseExpires,
                    OutboxClaimLapses, TaskAges, ProducerPush, vars, ledgerVars
<1>4. ASSUME NEW w \in Workers,
             \/ Dispatch(w) \/ CleanupTerminalOutbox(w) \/ StartRecovery(w) \/ Receive(w)
             \/ Crash(w) \/ Restart(w)
      PROVE  FALSE
  <2>1. UNCHANGED status
    BY <1>4 DEF Dispatch, ClaimPendingOutbox, Publish, PublishDone, MarkOutboxDelivered,
                CleanupTerminalOutbox, StartRecovery, Receive, Crash, Restart, ledgerVars
  <2> QED
    BY <1>2, <2>1
<1>5. ASSUME NEW w \in Workers, Recover(w) PROVE Fine
  <2>1. ASSUME NEW m \in Messages, RecoverRow(w, m) PROVE FALSE
    <3>1. RecoverDelivery(m) \/ UNCHANGED status
      BY <2>1 DEF RecoverRow, ledgerVars
    <3> QED
      BY <1>1, <1>2, <3>1 DEF RecoverDelivery
  <2>2. CASE ReapRows(w)
    <3>1. worker'[w].at = "loop"
      BY <2>2 DEF ReapRows, Rest, Resting, PlaneTypes
    <3> QED
      BY <1>1, <2>2, <3>1 DEF ReapRows, ReapOrphans, ledgerVars
  <2>3. ASSUME NEW m \in Messages, RecoverInvalid(w, m) PROVE FALSE
    BY <1>2, <2>3 DEF RecoverInvalid, ledgerVars
  <2>4. CASE \/ RequeueStaleDelivery(w) \/ AcknowledgeProcessingDelivery(w)
             \/ ReapReadWaiting(w) \/ ReapReadProcessing(w)
    BY <1>2, <2>4 DEF RequeueStaleDelivery, AcknowledgeProcessingDelivery, ReapReadWaiting,
                      ReapReadProcessing, ledgerVars
  <2> QED
    BY <1>5, <2>1, <2>2, <2>3, <2>4 DEF Recover
<1>6. ASSUME NEW w \in Workers, Handle(w) PROVE FALSE
  <2>1. CASE Claim(w)
    <3> DEFINE u == worker[w].task
               e == CHOOSE x \in Unused : TRUE
    <3>1. \/ ClaimGranted(u, e) \/ (\E f \in Executions : ClaimUncertain(u, f)) \/ UNCHANGED status
      BY <2>1 DEF Claim, ClaimRefused, ledgerVars
    <3> HIDE DEF e, u
    <3>2. CASE ClaimGranted(u, e)
      BY <1>1, <3>2 DEF ClaimGranted
    <3>3. ASSUME NEW f \in Executions, ClaimUncertain(u, f) PROVE FALSE
      <4>1. attempt[f] = "inflight" /\ attempt'[f] = "outcome_unknown"
        BY <3>3 DEF ClaimUncertain, Inflight
      <4> QED
        BY <1>1, <4>1
    <3> QED
      BY <1>2, <3>1, <3>2, <3>3
  <2>2. ASSUME NEW e \in Executions, RecordCompletion(e) \/ RecordFailed(e) PROVE FALSE
    BY <1>1, <2>2 DEF RecordCompletion, RecordFailed, HoldsLease
  <2>3. CASE Complete(w) \/ RecordFailure(w)
    <3>1. worker[w].lease \in Executions
      BY <2>3, HandlerHasLease DEF Complete, RecordFailure, Handling
    <3> QED
      BY <1>2, <2>2, <2>3, <3>1 DEF Complete, RecordFailure, ledgerVars
  <2>4. CASE DeadLetter(w) \/ Call(w) \/ Await(w) \/ SkipCall(w) \/ Acknowledge(w) \/ Attempt(w)
    BY <1>2, <2>4 DEF DeadLetter, Call, Await, SkipCall, Acknowledge, Attempt, RecordProviderAttempt,
                      ledgerVars
  <2> QED
    BY <1>6, <2>1, <2>3, <2>4 DEF Handle
<1> QED
  BY <1>3, <1>4, <1>5, <1>6, StepIsOfWorkerOrEnvironment DEF WorkerStep

(* The reaper overlooks no message that the other workers move between its *)
(* two reads: it fails a task whose message is in Redis only if that came  *)
(* into the task queue after the queue was read, for any number of         *)
(* workers, failures and stalls.                                           *)
THEOREM ReapedMessagesArrivedLate == WatchSpec => ReaperSparesDelivered
<1> DEFINE Spared ==
      \A t \in Named :
        Reaped(t) /\ InRedis(t) =>
          \E w \in Workers :
            /\ worker[w].at = "reapRows" /\ worker'[w].at # "reapRows"
            /\ t \in arrived[w]
<1>1. WatchSpec => Spec
  <2>1. WatchInit => Init
    BY DEF WatchInit
  <2>2. [WatchNext]_watchVars => [Next]_vars
    BY DEF WatchNext, watchVars
  <2> QED
    BY <2>1, <2>2, PTL DEF WatchSpec, Spec
<1>2. WatchInit => WatchInv
  BY DEF WatchInit, Init, Resting, WatchInv, SeenOrArrived
<1>3. PlaneInv /\ WatchInv /\ [WatchNext]_watchVars => WatchInv'
  BY WatchStep
<1>4. ASSUME PlaneInv, WatchInv, [WatchNext]_watchVars PROVE [Spared]_watchVars
  <2> SUFFICES ASSUME NEW t \in Named, Reaped(t), InRedis(t)
               PROVE  \E w \in Workers :
                        /\ worker[w].at = "reapRows" /\ worker'[w].at # "reapRows"
                        /\ t \in arrived[w]
    OBVIOUS
  <2>1. [Next]_vars
    BY <1>4 DEF WatchNext, watchVars
  <2>2. PICK w \in Workers :
          worker[w].at = "reapRows" /\ worker'[w].at # "reapRows" /\ t \notin worker[w].seen
    BY <1>4, <2>1, ReapedByReaper, NamedIsMessage
  <2> QED
    BY <1>4, <2>2 DEF WatchInv, SeenOrArrived
<1> QED
  BY <1>1, <1>2, <1>3, <1>4, PlaneInvariant, PTL DEF WatchSpec, ReaperSparesDelivered

=============================================================================
