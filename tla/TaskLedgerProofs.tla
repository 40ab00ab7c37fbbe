-------------------------- MODULE TaskLedgerProofs --------------------------
(***************************************************************************)
(* Proofs about TaskLedger for every set of tasks and executions.  RowsAgree *)
(* and LedgerTypeOK are inductive together, and ReceiptBacksResult needs   *)
(* them: a completion marks a task succeeded only if that task names the   *)
(* execution the receipt is written for.                                   *)
(***************************************************************************)
EXTENDS TaskLedger, TLAPS

(* The conjuncts of RowsAgree, named for the proofs.                       *)
LedgerInv == LedgerTypeOK /\ RowsAgree /\ ReceiptBacksResult

-----------------------------------------------------------------------------
(* The empty database satisfies the invariant.                             *)
LEMMA InitInv == LedgerInit => LedgerInv
BY LedgerAssumption
   DEF LedgerInit, LedgerInv, LedgerTypeOK, RowsAgree, ReceiptBacksResult,
       TaskStatus, AttemptStatus

(* The dashboard's insertion leaves every other row alone.                 *)
LEMMA RecordQueuedTaskInv ==
  ASSUME NEW t \in Tasks, LedgerInv, RecordQueuedTask(t)
  PROVE  LedgerInv'
BY LedgerAssumption
   DEF RecordQueuedTask, LedgerInv, LedgerTypeOK, RowsAgree, ReceiptBacksResult,
       TaskStatus, AttemptStatus

(* An uncertain claim closes an attempt and may fail the task.             *)
LEMMA ClaimUncertainInv ==
  ASSUME NEW t \in Tasks, NEW e \in Executions, LedgerInv, ClaimUncertain(t, e)
  PROVE  LedgerInv'
BY LedgerAssumption
   DEF ClaimUncertain, Inflight, LedgerInv, LedgerTypeOK, RowsAgree,
       ReceiptBacksResult, TaskStatus, AttemptStatus

(* A granted claim ties a fresh execution to the task.                     *)
LEMMA ClaimGrantedInv ==
  ASSUME NEW t \in Tasks, NEW e \in Executions, LedgerInv, ClaimGranted(t, e)
  PROVE  LedgerInv'
BY LedgerAssumption
   DEF ClaimGranted, LedgerInv, LedgerTypeOK, RowsAgree, ReceiptBacksResult,
       TaskStatus, AttemptStatus

(* An attempt row appears only for an execution some claim generated.      *)
LEMMA RecordProviderAttemptInv ==
  ASSUME NEW e \in Executions, LedgerInv, RecordProviderAttempt(e)
  PROVE  LedgerInv'
BY LedgerAssumption
   DEF RecordProviderAttempt, LedgerInv, LedgerTypeOK, RowsAgree,
       ReceiptBacksResult, TaskStatus, AttemptStatus

(* A completion writes the receipt and the two statuses together.          *)
LEMMA RecordCompletionInv ==
  ASSUME NEW e \in Executions, LedgerInv, RecordCompletion(e)
  PROVE  LedgerInv'
BY LedgerAssumption
   DEF RecordCompletion, HoldsLease, LedgerInv, LedgerTypeOK, RowsAgree,
       ReceiptBacksResult, TaskStatus, AttemptStatus

(* A failure touches the task only through a lease still held.             *)
LEMMA RecordFailedInv ==
  ASSUME NEW e \in Executions, LedgerInv, RecordFailed(e)
  PROVE  LedgerInv'
BY LedgerAssumption
   DEF RecordFailed, HoldsLease, LedgerInv, LedgerTypeOK, RowsAgree,
       ReceiptBacksResult, TaskStatus, AttemptStatus

(* Recovery clears the execution ID of the row it gives back.              *)
LEMMA RecoverDeliveryInv ==
  ASSUME NEW t \in Tasks, LedgerInv, RecoverDelivery(t)
  PROVE  LedgerInv'
BY LedgerAssumption
   DEF RecoverDelivery, LedgerInv, LedgerTypeOK, RowsAgree, ReceiptBacksResult,
       TaskStatus, AttemptStatus

(* The reaper fails queued rows, which name no execution.                  *)
LEMMA ReapOrphansInv ==
  ASSUME NEW S \in SUBSET Tasks, LedgerInv, ReapOrphans(S)
  PROVE  LedgerInv'
BY LedgerAssumption
   DEF ReapOrphans, LedgerInv, LedgerTypeOK, RowsAgree, ReceiptBacksResult,
       TaskStatus, AttemptStatus

(* Time moves no row.                                                      *)
LEMMA LeaseExpiresInv ==
  ASSUME NEW t \in Tasks, LedgerInv, LeaseExpires(t)
  PROVE  LedgerInv'
BY DEF LeaseExpires, LedgerInv, LedgerTypeOK, RowsAgree, ReceiptBacksResult

(* Every transaction, and every stuttering step, preserves the invariant.  *)
LEMMA NextInv == LedgerInv /\ [LedgerNext]_ledgerVars => LedgerInv'
<1> SUFFICES ASSUME LedgerInv, [LedgerNext]_ledgerVars
             PROVE  LedgerInv'
    OBVIOUS
<1>1. ASSUME NEW t \in Tasks,
             RecordQueuedTask(t) \/ RecoverDelivery(t) \/ LeaseExpires(t)
      PROVE  LedgerInv'
      BY <1>1, RecordQueuedTaskInv, RecoverDeliveryInv, LeaseExpiresInv
<1>2. ASSUME NEW t \in Tasks, NEW e \in Executions,
             ClaimUncertain(t, e) \/ ClaimGranted(t, e)
      PROVE  LedgerInv'
      BY <1>2, ClaimUncertainInv, ClaimGrantedInv
<1>3. ASSUME NEW e \in Executions,
             RecordProviderAttempt(e) \/ RecordCompletion(e) \/ RecordFailed(e)
      PROVE  LedgerInv'
      BY <1>3, RecordProviderAttemptInv, RecordCompletionInv, RecordFailedInv
<1>4. ASSUME NEW S \in SUBSET Tasks, ReapOrphans(S)
      PROVE  LedgerInv'
      BY <1>4, ReapOrphansInv
<1>5. ASSUME UNCHANGED ledgerVars
      PROVE  LedgerInv'
      BY <1>5 DEF ledgerVars, LedgerInv, LedgerTypeOK, RowsAgree, ReceiptBacksResult
<1> QED BY <1>1, <1>2, <1>3, <1>4, <1>5 DEF LedgerNext, ClaimRefused

(* The rows of one execution agree and keep their types, whatever workers, *)
(* crashes and late answers drive the transactions.                        *)
THEOREM LedgerInvariant == LedgerSpec => []LedgerInv
BY InitInv, NextInv, PTL DEF LedgerSpec

(* No status, lease or attempt leaves the values the schema's CHECK        *)
(* constraints allow.                                                      *)
THEOREM LedgerTypeCorrect == LedgerSpec => []LedgerTypeOK
<1>1. LedgerInv => LedgerTypeOK  BY DEF LedgerInv
<1> QED BY <1>1, LedgerInvariant, PTL

(* attempts, receipts and task rows never contradict one another.          *)
THEOREM RowsAlwaysAgree == LedgerSpec => []RowsAgree
<1>1. LedgerInv => RowsAgree  BY DEF LedgerInv
<1> QED BY <1>1, LedgerInvariant, PTL

(* A task is never shown as succeeded without the cost receipt of the      *)
(* execution it names.                                                     *)
THEOREM ReceiptAlwaysBacksResult == LedgerSpec => []ReceiptBacksResult
<1>1. LedgerInv => ReceiptBacksResult  BY DEF LedgerInv
<1> QED BY <1>1, LedgerInvariant, PTL
-----------------------------------------------------------------------------
(* What no transaction does to a settled task, a verdict or a receipt.     *)
SettledKept ==
  \A t \in Tasks : Terminal(t) => status'[t] = status[t] /\ execution'[t] = execution[t]

AuditGrown ==
  /\ receipts \subseteq receipts'
  /\ \A e \in Executions :
       /\ attempt[e] \notin {"none", "inflight"} => attempt'[e] = attempt[e]
       /\ attempt[e] = "inflight" => attempt'[e] # "none"

LEMMA SettledStep == LedgerTypeOK /\ [LedgerNext]_ledgerVars => SettledKept
<1> SUFFICES ASSUME LedgerTypeOK, [LedgerNext]_ledgerVars, NEW s \in Tasks, Terminal(s)
             PROVE  status'[s] = status[s] /\ execution'[s] = execution[s]
  BY DEF SettledKept
<1> USE DEF LedgerTypeOK, Terminal
<1>1. ASSUME NEW t \in Tasks, RecordQueuedTask(t) \/ LeaseExpires(t)
      PROVE  status'[s] = status[s] /\ execution'[s] = execution[s]
  BY <1>1 DEF RecordQueuedTask, LeaseExpires
<1>2. ASSUME NEW t \in Tasks, RecoverDelivery(t)
      PROVE  status'[s] = status[s] /\ execution'[s] = execution[s]
  BY <1>2 DEF RecoverDelivery, Recoverable
<1>3. ASSUME NEW t \in Tasks, NEW e \in Executions, ClaimUncertain(t, e) \/ ClaimGranted(t, e)
      PROVE  status'[s] = status[s] /\ execution'[s] = execution[s]
  BY <1>3 DEF ClaimUncertain, ClaimGranted
<1>4. ASSUME NEW e \in Executions,
             RecordProviderAttempt(e) \/ RecordCompletion(e) \/ RecordFailed(e)
      PROVE  status'[s] = status[s] /\ execution'[s] = execution[s]
  BY <1>4 DEF RecordProviderAttempt, RecordCompletion, RecordFailed, HoldsLease
<1>5. ASSUME NEW S \in SUBSET Tasks, ReapOrphans(S)
      PROVE  status'[s] = status[s] /\ execution'[s] = execution[s]
  BY <1>5 DEF ReapOrphans
<1>6. ASSUME UNCHANGED ledgerVars
      PROVE  status'[s] = status[s] /\ execution'[s] = execution[s]
  BY <1>6 DEF ledgerVars
<1> QED
  BY <1>1, <1>2, <1>3, <1>4, <1>5, <1>6 DEF LedgerNext, ClaimRefused

LEMMA AuditStep == LedgerTypeOK /\ [LedgerNext]_ledgerVars => AuditGrown
<1> SUFFICES ASSUME LedgerTypeOK, [LedgerNext]_ledgerVars PROVE AuditGrown
  OBVIOUS
<1> USE DEF LedgerTypeOK, AuditGrown
<1>1. ASSUME NEW t \in Tasks, RecordQueuedTask(t) \/ RecoverDelivery(t) \/ LeaseExpires(t)
      PROVE  AuditGrown
  BY <1>1 DEF RecordQueuedTask, RecoverDelivery, LeaseExpires
<1>2. ASSUME NEW t \in Tasks, NEW e \in Executions, ClaimUncertain(t, e) \/ ClaimGranted(t, e)
      PROVE  AuditGrown
  BY <1>2 DEF ClaimUncertain, ClaimGranted, Inflight
<1>3. ASSUME NEW e \in Executions,
             RecordProviderAttempt(e) \/ RecordCompletion(e) \/ RecordFailed(e)
      PROVE  AuditGrown
  BY <1>3 DEF RecordProviderAttempt, RecordCompletion, RecordFailed
<1>4. ASSUME NEW S \in SUBSET Tasks, ReapOrphans(S) PROVE AuditGrown
  BY <1>4 DEF ReapOrphans
<1>5. ASSUME UNCHANGED ledgerVars PROVE AuditGrown
  BY <1>5 DEF ledgerVars
<1> QED
  BY <1>1, <1>2, <1>3, <1>4, <1>5 DEF LedgerNext, ClaimRefused

(* A settled task keeps its status and the execution it names: every       *)
(* transaction that writes tasks carries a status predicate that excludes  *)
(* settled rows.                                                           *)
THEOREM SettledTaskIsFinal == LedgerSpec => SettledIsFinal
<1>1. LedgerTypeOK /\ [LedgerNext]_ledgerVars => [SettledKept]_ledgerVars
  BY SettledStep
<1> QED
  BY <1>1, LedgerTypeCorrect, PTL DEF LedgerSpec, SettledIsFinal, SettledKept

(* The audit trail only grows: no retry, recovery or late answer rewrites  *)
(* the verdict of a concluded attempt or removes a receipt.                *)
THEOREM AuditTrailIsAppendOnly == LedgerSpec => AuditIsAppendOnly
<1>1. LedgerTypeOK /\ [LedgerNext]_ledgerVars => [AuditGrown]_ledgerVars
  BY AuditStep
<1> QED
  BY <1>1, LedgerTypeCorrect, PTL DEF LedgerSpec, AuditIsAppendOnly, AuditGrown

-----------------------------------------------------------------------------
(* An empty ledger shows no task.                                          *)
LEMMA OutcomeInitially == LedgerInit => Outcome!OutcomeInit
BY DEF LedgerInit, VisiblePhase, Billed, Outcome!OutcomeInit

(* A step that leaves every status in its visible phase and adds no        *)
(* receipt to a task not yet settled is invisible to a submitter.          *)
LEMMA OutcomeStutters ==
  ASSUME VisiblePhase' = VisiblePhase, Billed' = Billed
  PROVE  UNCHANGED Outcome!outcomeVars
BY DEF Outcome!outcomeVars

(* Each transaction accepts a task, settles some, or changes nothing a     *)
(* submitter can see.                                                      *)
LEMMA OutcomeStep ==
  LedgerInv /\ [LedgerNext]_ledgerVars
    => [Outcome!OutcomeNext]_(Outcome!outcomeVars)
<1> SUFFICES ASSUME LedgerInv, [LedgerNext]_ledgerVars
             PROVE  Outcome!OutcomeNext \/ UNCHANGED Outcome!outcomeVars
    OBVIOUS
<1> USE DEF LedgerInv, LedgerTypeOK, VisiblePhase, Billed, TaskStatus
<1>1. ASSUME NEW t \in Tasks, RecordQueuedTask(t)
      PROVE  Outcome!Accept(t)
      BY <1>1 DEF RecordQueuedTask, Outcome!Accept
<1>2. ASSUME NEW t \in Tasks, NEW e \in Executions, ClaimUncertain(t, e)
      PROVE  Outcome!Fail({t}) \/ UNCHANGED Outcome!outcomeVars
  <2>1. CASE status[t] = "queued"
        BY <1>2, <2>1 DEF ClaimUncertain, Outcome!Fail
  <2>2. CASE status[t] # "queued"
        BY <1>2, <2>2 DEF ClaimUncertain, Outcome!outcomeVars
  <2> QED BY <2>1, <2>2
<1>3. ASSUME NEW t \in Tasks, NEW e \in Executions, ClaimGranted(t, e)
      PROVE  Outcome!Accept(t) \/ UNCHANGED Outcome!outcomeVars
  <2>1. Billed' = Billed
        BY <1>3 DEF ClaimGranted
  <2>2. CASE status[t] = "absent"
        BY <1>3, <2>1, <2>2 DEF ClaimGranted, Outcome!Accept
  <2>3. CASE status[t] = "queued"
    <3>1. VisiblePhase' = VisiblePhase
          BY <1>3, <2>3 DEF ClaimGranted
    <3> QED BY <2>1, <3>1, OutcomeStutters
  <2> QED BY <1>3, <2>2, <2>3 DEF ClaimGranted
<1>4. ASSUME NEW e \in Executions, RecordProviderAttempt(e)
      PROVE  UNCHANGED Outcome!outcomeVars
      BY <1>4 DEF RecordProviderAttempt, Outcome!outcomeVars
<1>5. ASSUME NEW e \in Executions, RecordCompletion(e)
      PROVE  Outcome!Succeed(owner[e]) \/ UNCHANGED Outcome!outcomeVars
  <2>1. owner[e] \in Tasks
        BY <1>5 DEF RecordCompletion
  <2>2. CASE HoldsLease(owner[e], e)
    <3>1. Billed' = Billed \cup {owner[e]}
          BY <1>5, <2>1, <2>2
             DEF RecordCompletion, HoldsLease, RowsAgree, ReceiptBacksResult
    <3> QED BY <1>5, <2>1, <2>2, <3>1
               DEF RecordCompletion, HoldsLease, Outcome!Succeed
  <2>3. CASE ~HoldsLease(owner[e], e)
    <3>1. status' = status /\ execution' = execution
          BY <1>5, <2>1, <2>3 DEF RecordCompletion
    <3>2. Billed' = Billed
          BY <1>5, <3>1 DEF RecordCompletion, ReceiptBacksResult
    <3>3. VisiblePhase' = VisiblePhase
          BY <3>1
    <3> QED BY <3>2, <3>3, OutcomeStutters
  <2> QED BY <2>2, <2>3
<1>6. ASSUME NEW e \in Executions, RecordFailed(e)
      PROVE  Outcome!Fail({owner[e]}) \/ UNCHANGED Outcome!outcomeVars
  <2>1. owner[e] \in Tasks
        BY <1>6 DEF RecordFailed
  <2>2. CASE HoldsLease(owner[e], e)
        BY <1>6, <2>1, <2>2 DEF RecordFailed, HoldsLease, Outcome!Fail
  <2>3. CASE ~HoldsLease(owner[e], e)
        BY <1>6, <2>1, <2>3 DEF RecordFailed, Outcome!outcomeVars
  <2> QED BY <2>2, <2>3
<1>7. ASSUME NEW t \in Tasks, RecoverDelivery(t)
      PROVE  Outcome!Accept(t) \/ UNCHANGED Outcome!outcomeVars
  <2>1. Billed' = Billed
        BY <1>7 DEF RecoverDelivery, Recoverable
  <2>2. CASE status[t] = "absent"
        BY <1>7, <2>1, <2>2 DEF RecoverDelivery, Outcome!Accept
  <2>3. CASE status[t] # "absent"
    <3>1. VisiblePhase' = VisiblePhase
          BY <1>7, <2>3 DEF RecoverDelivery, Recoverable
    <3> QED BY <2>1, <3>1, OutcomeStutters
  <2> QED BY <2>2, <2>3
<1>8. ASSUME NEW S \in SUBSET Tasks, ReapOrphans(S)
      PROVE  Outcome!Fail(S)
      BY <1>8 DEF ReapOrphans, Outcome!Fail
<1>9. ASSUME NEW t \in Tasks, LeaseExpires(t) \/ ClaimRefused(t)
      PROVE  UNCHANGED Outcome!outcomeVars
      BY <1>9 DEF LeaseExpires, ClaimRefused, ledgerVars, Outcome!outcomeVars
<1>10. ASSUME UNCHANGED ledgerVars
       PROVE  UNCHANGED Outcome!outcomeVars
       BY <1>10 DEF ledgerVars, Outcome!outcomeVars
<1>11. \A t \in Tasks :
         Outcome!Accept(t) \/ Outcome!Succeed(t) \/ Outcome!Fail({t}) => Outcome!OutcomeNext
       BY DEF Outcome!OutcomeNext
<1>12. \A S \in SUBSET Tasks : Outcome!Fail(S) => Outcome!OutcomeNext
       BY DEF Outcome!OutcomeNext
<1>13. \A e \in Executions :
         RecordCompletion(e) \/ RecordFailed(e) => owner[e] \in Tasks
       BY DEF RecordCompletion, RecordFailed
<1> HIDE DEF LedgerInv, LedgerTypeOK, VisiblePhase, Billed, TaskStatus
<1>14. ASSUME NEW e \in Executions,
              RecordProviderAttempt(e) \/ RecordCompletion(e) \/ RecordFailed(e)
       PROVE  Outcome!OutcomeNext \/ UNCHANGED Outcome!outcomeVars
       BY <1>4, <1>5, <1>6, <1>11, <1>13, <1>14
<1>15. ASSUME NEW t \in Tasks, NEW e \in Executions,
              ClaimUncertain(t, e) \/ ClaimGranted(t, e)
       PROVE  Outcome!OutcomeNext \/ UNCHANGED Outcome!outcomeVars
       BY <1>2, <1>3, <1>11, <1>15
<1>16. ASSUME NEW t \in Tasks,
              RecordQueuedTask(t) \/ ClaimRefused(t) \/ RecoverDelivery(t) \/ LeaseExpires(t)
       PROVE  Outcome!OutcomeNext \/ UNCHANGED Outcome!outcomeVars
       BY <1>1, <1>7, <1>9, <1>11, <1>16
<1> QED
    BY <1>8, <1>10, <1>12, <1>14, <1>15, <1>16 DEF LedgerNext

(* The ledger implements the promise made to submitters.                   *)
THEOREM LedgerImplementsOutcome == LedgerSpec => ImplementsOutcome
BY OutcomeInitially, OutcomeStep, LedgerInvariant, PTL
   DEF LedgerSpec, ImplementsOutcome, Outcome!OutcomeSpec
=============================================================================
