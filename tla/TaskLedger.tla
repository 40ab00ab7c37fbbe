----------------------------- MODULE TaskLedger -----------------------------
(***************************************************************************)
(* The PostgreSQL half of the control plane: the rows of tasks,            *)
(* provider_attempts and cost_events, and every transaction that           *)
(* orchestrator/worker.py and dashboard/app.py run on them.  One action is *)
(* one committed transaction.  Who calls it and when is left open here     *)
(* (any worker, alive, slow or restarted); ControlPlane composes these     *)
(* transactions with the Redis lists and the worker loop.                  *)
(*                                                                         *)
(* An execution ID is the uuid4 that claim_task generates for one lease,   *)
(* so a pair (task_id, execution_id) is identified by the execution alone: *)
(* provider_attempts is attempt[e], cost_events is the set receipts, and   *)
(* owner[e] is the task an execution was generated for.                    *)
(***************************************************************************)
CONSTANTS
  Tasks,         \* task IDs
  Executions,    \* execution IDs claim_task may generate
  NoTask,        \* no task
  NoExecution    \* SQL NULL in tasks.execution_id

ASSUME LedgerAssumption == NoTask \notin Tasks /\ NoExecution \notin Executions

VARIABLES
  status,       \* tasks.status, "absent" when there is no row
  execution,    \* tasks.execution_id
  expired,      \* tasks whose started_at is older than TASK_LEASE_SECONDS
  owner,        \* the task each execution ID was generated for
  attempt,      \* provider_attempts.status, "none" when there is no row
  receipts      \* the executions with a cost_events row

ledgerVars == <<status, execution, expired, owner, attempt, receipts>>

-----------------------------------------------------------------------------
TaskStatus == {"absent", "queued", "running", "succeeded", "failed"}
AttemptStatus == {"none", "inflight", "completed", "failed", "outcome_unknown"}

LedgerTypeOK ==
  /\ status \in [Tasks -> TaskStatus]
  /\ execution \in [Tasks -> Executions \cup {NoExecution}]
  /\ expired \in SUBSET Tasks
  /\ owner \in [Executions -> Tasks \cup {NoTask}]
  /\ attempt \in [Executions -> AttemptStatus]
  /\ receipts \in SUBSET Executions

Terminal(t) == status[t] \in {"succeeded", "failed"}

Inflight(t) == {e \in Executions : owner[e] = t /\ attempt[e] = "inflight"}

(* UPDATE tasks ... WHERE id=... AND status='running' AND execution_id=... *)
HoldsLease(t, e) == status[t] = "running" /\ execution[t] = e

LedgerInit ==
  /\ status = [t \in Tasks |-> "absent"]
  /\ execution = [t \in Tasks |-> NoExecution]
  /\ expired = {}
  /\ owner = [e \in Executions |-> NoTask]
  /\ attempt = [e \in Executions |-> "none"]
  /\ receipts = {}

-----------------------------------------------------------------------------
(* Deliberate mistakes: operations with one error a programmer could make. *)
(* No specification uses them; each shows which property catches it.       *)

\* the unresolved attempts of earlier leases are not looked up
ClaimIgnoringAttempts(t, e) ==
  /\ status[t] \in {"absent", "queued"}
  /\ owner[e] = NoTask
  /\ status' = [status EXCEPT ![t] = "running"]
  /\ execution' = [execution EXCEPT ![t] = e]
  /\ expired' = expired \ {t}
  /\ owner' = [owner EXCEPT ![e] = t]
  /\ UNCHANGED <<attempt, receipts>>

\* the update of a claim also matches a running row
ClaimOfRunning(t, e) ==
  /\ Inflight(t) = {}
  /\ status[t] \in {"absent", "queued", "running"}
  /\ owner[e] = NoTask
  /\ status' = [status EXCEPT ![t] = "running"]
  /\ execution' = [execution EXCEPT ![t] = e]
  /\ expired' = expired \ {t}
  /\ owner' = [owner EXCEPT ![e] = t]
  /\ UNCHANGED <<attempt, receipts>>

\* the result is written to any running row, whoever holds its lease
CompletionOfAnyLease(e) ==
  LET t == owner[e] IN
  /\ owner[e] # NoTask
  /\ attempt[e] # "none"
  /\ receipts' = receipts \cup {e}
  /\ status' = [status EXCEPT ![t] = IF @ = "running" THEN "succeeded" ELSE @]
  /\ attempt' = [attempt EXCEPT ![e] = IF @ = "inflight" THEN "completed" ELSE @]
  /\ UNCHANGED <<execution, expired, owner>>

\* a concluded attempt is completed again
CompletionOfAnyAttempt(e) ==
  LET t == owner[e] IN
  /\ owner[e] # NoTask
  /\ attempt[e] # "none"
  /\ receipts' = receipts \cup {e}
  /\ status' = [status EXCEPT ![t] = IF HoldsLease(t, e) THEN "succeeded" ELSE @]
  /\ attempt' = [attempt EXCEPT ![e] = "completed"]
  /\ UNCHANGED <<execution, expired, owner>>

\* a late failure overwrites the task row
FailureWithoutLease(e) ==
  /\ owner[e] # NoTask
  /\ status' = [status EXCEPT ![owner[e]] = "failed"]
  /\ attempt' = [attempt EXCEPT ![e] = IF @ = "inflight" THEN "failed" ELSE @]
  /\ UNCHANGED <<execution, expired, owner, receipts>>

\* a failure overwrites the verdict of a concluded attempt
FailureOfAnyAttempt(e) ==
  LET t == owner[e] IN
  /\ owner[e] # NoTask
  /\ status' = [status EXCEPT ![t] = IF HoldsLease(t, e) THEN "failed" ELSE @]
  /\ attempt' = [attempt EXCEPT ![e] = "failed"]
  /\ UNCHANGED <<execution, expired, owner, receipts>>

\* recovery never gives back a lease
RecoverableQueued(t) == status[t] \in {"absent", "queued"}

\* recovery does not look at the age of a lease
RecoverableAtOnce(t) == status[t] \in {"absent", "queued", "running"}

\* recovery leaves the old execution ID in the row
RecoveryKeepingExecution(t) ==
  /\ status[t] \in {"absent", "queued"} \/ (status[t] = "running" /\ t \in expired)
  /\ status' = [status EXCEPT ![t] = "queued"]
  /\ expired' = expired \ {t}
  /\ UNCHANGED <<execution, owner, attempt, receipts>>

-----------------------------------------------------------------------------
(* The dashboard's transaction; its outbox row is ControlPlane's.          *)
RecordQueuedTask(t) ==
  /\ status[t] = "absent"
  /\ status' = [status EXCEPT ![t] = "queued"]
  /\ UNCHANGED <<execution, expired, owner, attempt, receipts>>

(* claim_task finds an attempt whose outcome nobody recorded: the task is  *)
(* failed if it is queued, the attempt is closed whatever the task's       *)
(* status is, and no lease is returned.  The query takes the attempt with  *)
(* the latest started_at, which is the time its transaction began and need *)
(* not follow the order of commits: any of them may be the one.            *)
ClaimUncertain(t, e) ==
  /\ e \in Inflight(t)
  /\ status' = [status EXCEPT ![t] = IF @ = "queued" THEN "failed" ELSE @]
  /\ attempt' = [attempt EXCEPT ![e] = "outcome_unknown"]
  /\ UNCHANGED <<execution, expired, owner, receipts>>

(* claim_task returns a lease: the row is inserted if it is missing, and   *)
(* a queued row becomes running under the execution ID just generated.     *)
ClaimGranted(t, e) ==
  /\ Inflight(t) = {}
  /\ status[t] \in {"absent", "queued"}
  /\ owner[e] = NoTask
  /\ status' = [status EXCEPT ![t] = "running"]
  /\ execution' = [execution EXCEPT ![t] = e]
  /\ expired' = expired \ {t}
  /\ owner' = [owner EXCEPT ![e] = t]
  /\ UNCHANGED <<attempt, receipts>>

(* claim_task finds the task running or settled, and no doubt about it.    *)
ClaimRefused(t) ==
  /\ Inflight(t) = {}
  /\ status[t] \notin {"absent", "queued"}
  /\ UNCHANGED ledgerVars

(* Nothing checks that the lease is still held.                            *)
RecordProviderAttempt(e) ==
  /\ owner[e] # NoTask
  /\ attempt' = [attempt EXCEPT ![e] = IF @ = "none" THEN "inflight" ELSE @]
  /\ UNCHANGED <<status, execution, expired, owner, receipts>>

(* Receipt, task and attempt in one transaction.  The receipt is kept even *)
(* when the lease is lost and the task row is left alone.  handle_delivery *)
(* comes here only after its attempt row was committed.                    *)
RecordCompletion(e) ==
  LET t == owner[e] IN
  /\ owner[e] # NoTask
  /\ attempt[e] # "none"
  /\ receipts' = receipts \cup {e}
  /\ status' = [status EXCEPT ![t] = IF HoldsLease(t, e) THEN "succeeded" ELSE @]
  /\ attempt' = [attempt EXCEPT ![e] = IF @ = "inflight" THEN "completed" ELSE @]
  /\ UNCHANGED <<execution, expired, owner>>

RecordFailed(e) ==
  LET t == owner[e] IN
  /\ owner[e] # NoTask
  /\ status' = [status EXCEPT ![t] = IF HoldsLease(t, e) THEN "failed" ELSE @]
  /\ attempt' = [attempt EXCEPT ![e] = IF @ = "inflight" THEN "failed" ELSE @]
  /\ UNCHANGED <<execution, expired, owner, receipts>>

(* The transaction of recover_stale_deliveries: insert the row if it is    *)
(* missing, else give back a queued row or a lease that has run out.       *)
Recoverable(t) ==
  \/ status[t] \in {"absent", "queued"}
  \/ status[t] = "running" /\ t \in expired

RecoverDelivery(t) ==
  /\ Recoverable(t)
  /\ status' = [status EXCEPT ![t] = "queued"]
  /\ execution' = [execution EXCEPT ![t] = NoExecution]
  /\ expired' = expired \ {t}
  /\ UNCHANGED <<owner, attempt, receipts>>

(* The transaction of reap_orphaned_queued_tasks.                          *)
ReapOrphans(S) ==
  /\ \A t \in S : status[t] = "queued"
  /\ status' = [t \in Tasks |-> IF t \in S THEN "failed" ELSE status[t]]
  /\ UNCHANGED <<execution, expired, owner, attempt, receipts>>

(* The passage of time: started_at becomes older than the lease.           *)
LeaseExpires(t) ==
  /\ status[t] = "running"
  /\ t \notin expired
  /\ expired' = expired \cup {t}
  /\ UNCHANGED <<status, execution, owner, attempt, receipts>>

LedgerNext ==
  \/ \E t \in Tasks :
       \/ RecordQueuedTask(t)
       \/ ClaimRefused(t)
       \/ RecoverDelivery(t)
       \/ LeaseExpires(t)
  \/ \E t \in Tasks, e \in Executions : ClaimUncertain(t, e) \/ ClaimGranted(t, e)
  \/ \E e \in Executions :
       RecordProviderAttempt(e) \/ RecordCompletion(e) \/ RecordFailed(e)
  \/ \E S \in SUBSET Tasks : ReapOrphans(S)

LedgerSpec == LedgerInit /\ [][LedgerNext]_ledgerVars

-----------------------------------------------------------------------------
(* A task is shown as succeeded only when the execution it names has a     *)
(* cost receipt (record_completion writes both or neither).                *)
ReceiptBacksResult ==
  \A t \in Tasks : status[t] = "succeeded" => execution[t] \in receipts

(* The attempt, receipt and task rows of one execution agree: a completed  *)
(* attempt has its receipt, a receipt has its attempt row, the execution a *)
(* task names was generated for that task, and only a task that was leased *)
(* names one.                                                              *)
RowsAgree ==
  /\ \A e \in Executions : attempt[e] = "completed" => e \in receipts
  /\ \A e \in receipts : attempt[e] # "none"
  /\ \A e \in Executions : attempt[e] # "none" => owner[e] # NoTask
  /\ \A t \in Tasks : execution[t] # NoExecution => owner[execution[t]] = t
  /\ \A t \in Tasks : status[t] \in {"running", "succeeded"} => execution[t] \in Executions
  /\ \A t \in Tasks : status[t] \in {"absent", "queued"} => execution[t] = NoExecution

(* No sequence of late completions, late failures, duplicate claims,       *)
(* recoveries and reaps changes a settled task or the execution it names.  *)
SettledIsFinal ==
  [][\A t \in Tasks : Terminal(t) =>
        status'[t] = status[t] /\ execution'[t] = execution[t]]_ledgerVars

(* An attempt, once concluded, keeps its verdict, and a receipt is never   *)
(* withdrawn: the audit trail of a call is append-only.                    *)
AuditIsAppendOnly ==
  [][/\ receipts \subseteq receipts'
     /\ \A e \in Executions :
          /\ attempt[e] \notin {"none", "inflight"} => attempt'[e] = attempt[e]
          /\ attempt[e] = "inflight" => attempt'[e] # "none"]_ledgerVars

(* What a submitter sees of the ledger.                                    *)
VisiblePhase ==
  [t \in Tasks |-> CASE status[t] = "absent" -> "unknown"
                     [] status[t] \in {"queued", "running"} -> "open"
                     [] OTHER -> status[t]]

Billed == {t \in Tasks : status[t] = "succeeded" /\ execution[t] \in receipts}

Outcome == INSTANCE TaskOutcome WITH phase <- VisiblePhase, billed <- Billed

(* The ledger keeps the promise TaskOutcome states.                        *)
ImplementsOutcome == Outcome!OutcomeSpec
=============================================================================
