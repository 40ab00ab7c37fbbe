---------------------------- MODULE ControlPlane ----------------------------
(***************************************************************************)
(* The queue workers (orchestrator/worker.py), the dashboard that accepts  *)
(* tasks (dashboard/app.py), the three Redis lists between them and the    *)
(* PostgreSQL transactions of TaskLedger.  One action is one committed     *)
(* transaction, one Redis command or one provider request of one process;  *)
(* everything else happens between two such actions.                       *)
(*                                                                         *)
(* The processing and dead-letter lists are bags: commands only append to  *)
(* them, remove one copy by value and enumerate them, and the copies of a  *)
(* task's message are equal strings.                                       *)
(***************************************************************************)
EXTENDS TaskLedger, Naturals, Sequences, FiniteSets

CONSTANTS
  Workers,        \* worker processes (replicas)
  NoWorker,       \* no worker
  Generated,      \* task IDs handle_delivery makes up for nameless messages
  Direct,         \* tasks a producer pushes to Redis without the dashboard
  Smoke,          \* tasks for provider "local-smoke-test"
  Unsupported,    \* tasks for a provider no branch of handle_delivery serves
  Nameless,       \* well-formed messages without a task_id
  Misnamed,       \* messages whose task_id is not a UUID
  Malformed,      \* messages that validate_payload or json.loads rejects
  NoMessage,      \* no message
  MaxCrashes,     \* bound: process deaths
  MaxFaults,      \* bound: failed database or Redis calls
  MaxCopies,      \* bound: copies of a message in Redis for a claim to lapse
  Stalls          \* may a live worker outlast its lease or outbox claim?

Messages == (Tasks \ Generated) \cup Nameless \cup Misnamed \cup Malformed

ASSUME ControlPlaneAssumption ==
  /\ NoWorker \notin Workers /\ NoMessage \notin Messages
  /\ Generated \cup Direct \cup Smoke \cup Unsupported \subseteq Tasks
  /\ (Tasks \ Generated) \cap (Nameless \cup Misnamed \cup Malformed) = {}
  /\ Nameless \cap (Misnamed \cup Malformed) = {}
  /\ MaxCrashes \in Nat /\ MaxFaults \in Nat /\ MaxCopies \in Nat /\ Stalls \in BOOLEAN

VARIABLES
  outbox,       \* task_outbox rows: delivery state of the request of a task
  claimant,     \* the worker that generated delivery_claim_id
  waiting,      \* TASK_QUEUE, head first
  processing,   \* copies of each message in PROCESSING_QUEUE
  dead,         \* copies of each message in DEAD_LETTER_QUEUE
  aged,         \* tasks created longer than ORPHANED_QUEUED_SECONDS ago
  worker,       \* where each worker stands in run_worker, and its locals
  produced,     \* messages a producer has pushed (each at most once)
  called,       \* executions whose provider request has left the worker
  answered,     \* executions whose provider request got an answer
  published,    \* tasks whose request a dispatcher has pushed
  crashes,      \* process deaths so far
  faults        \* failed calls so far

redisVars == <<waiting, processing, dead>>
outboxVars == <<outbox, claimant>>
historyVars == <<produced, called, answered, published>>
vars == <<ledgerVars, outboxVars, redisVars, historyVars, aged, worker, crashes, faults>>

-----------------------------------------------------------------------------
OutboxState == {"none", "pending", "claimed", "lapsed", "delivered"}

Places == {"loop", "publish", "mark", "recover", "requeue", "acknowledge",
           "reap", "reapProcessing", "reapRows", "deadletter", "claim",
           "attempt", "call", "await", "complete", "fail", "ack", "down"}

NoCopies == [m \in Messages |-> 0]

Resting(place) ==
  [at |-> place, message |-> NoMessage, task |-> NoTask,
   lease |-> NoExecution, todo |-> NoCopies, seen |-> {}]

TypeOK ==
  /\ LedgerTypeOK
  /\ outbox \in [Tasks -> OutboxState]
  /\ claimant \in [Tasks -> Workers \cup {NoWorker}]
  /\ \A t \in Tasks : claimant[t] # NoWorker <=> outbox[t] \in {"claimed", "lapsed"}
  /\ waiting \in Seq(Messages)
  /\ processing \in [Messages -> Nat] /\ dead \in [Messages -> Nat]
  /\ aged \in SUBSET Tasks
  /\ worker \in [Workers -> [at : Places, message : Messages \cup {NoMessage},
                             task : Tasks \cup {NoTask},
                             lease : Executions \cup {NoExecution},
                             todo : [Messages -> Nat], seen : SUBSET Tasks]]
  /\ produced \in SUBSET Messages
  /\ called \in SUBSET Executions /\ answered \in SUBSET called
  /\ published \in SUBSET Tasks
  /\ crashes \in 0 .. MaxCrashes /\ faults \in 0 .. MaxFaults

Init ==
  /\ LedgerInit
  /\ outbox = [t \in Tasks |-> "none"]
  /\ claimant = [t \in Tasks |-> NoWorker]
  /\ waiting = <<>> /\ processing = NoCopies /\ dead = NoCopies
  /\ aged = {}
  /\ worker = [w \in Workers |-> Resting("loop")]
  /\ produced = {} /\ called = {} /\ answered = {} /\ published = {}
  /\ crashes = 0 /\ faults = 0

-----------------------------------------------------------------------------
(* Deliberate mistakes, as in TaskLedger.                                  *)

\* the claim ID stays in the delivered row
MarkKeepingClaim(w) ==
  LET t == worker[w].message IN
  /\ worker[w].at = "mark"
  /\ \/ /\ IF outbox[t] \in {"claimed", "lapsed"} /\ claimant[t] = w
           THEN outbox' = [outbox EXCEPT ![t] = "delivered"]
           ELSE UNCHANGED outbox
        /\ UNCHANGED faults
     \/ faults < MaxFaults /\ faults' = faults + 1 /\ UNCHANGED outbox
  /\ worker' = [worker EXCEPT ![w].todo[t] = IF @ = 0 THEN 0 ELSE @ - 1,
                              ![w].message = NoMessage, ![w].at = "publish"]
  /\ UNCHANGED <<ledgerVars, claimant, redisVars, historyVars, aged, crashes>>

\* recovery takes a running task for a settled one
RecoverRunningAsSettled(w, t) ==
  /\ worker[w].at = "recover"
  /\ t \in Tasks \ Generated /\ worker[w].todo[t] > 0
  /\ \/ /\ RecoverDelivery(t)
        /\ worker' = [worker EXCEPT ![w].at = "requeue", ![w].message = t]
     \/ /\ ~ Recoverable(t)
        /\ worker' = [worker EXCEPT ![w].at = "acknowledge", ![w].message = t]
        /\ UNCHANGED ledgerVars
  /\ UNCHANGED <<outboxVars, redisVars, historyVars, aged, crashes, faults>>

\* an error of RPUSH is swallowed
PublishSwallowingErrors(w, t) ==
  /\ worker[w].at = "publish"
  /\ t \in Tasks \ Generated /\ worker[w].todo[t] > 0
  /\ \/ waiting' = Append(waiting, t) /\ published' = published \cup {t} /\ UNCHANGED faults
     \/ faults < MaxFaults /\ faults' = faults + 1 /\ UNCHANGED <<waiting, published>>
  /\ worker' = [worker EXCEPT ![w].at = "mark", ![w].message = t]
  /\ UNCHANGED <<ledgerVars, outboxVars, processing, dead, produced, called,
                 answered, aged, crashes>>

\* a claim on an outbox row is never taken over
DispatchableUnclaimed == {t \in Tasks : outbox[t] = "pending" /\ status[t] = "queued"}

\* recovery acknowledges a message it cannot look up
RecoverInvalidByRemoval(w, m) ==
  /\ worker[w].at = "recover"
  /\ worker[w].todo[m] > 0
  /\ m \notin Tasks \ Generated
  /\ processing' = [processing EXCEPT ![m] = IF @ = 0 THEN 0 ELSE @ - 1]
  /\ worker' = [worker EXCEPT ![w].todo[m] = @ - 1]
  /\ UNCHANGED <<ledgerVars, outboxVars, waiting, dead, historyVars, aged, crashes, faults>>

\* the reaper forgets what it saw in the task queue
ReapForgettingWaiting(w) ==
  /\ worker[w].at = "reapProcessing"
  /\ worker' = [worker EXCEPT ![w].at = "reapRows",
                              ![w].seen = {t \in Tasks \ Generated : processing[t] > 0}]
  /\ UNCHANGED <<ledgerVars, outboxVars, redisVars, historyVars, aged, crashes, faults>>

\* a message whose claim raised is acknowledged
ClaimErrorAcknowledged(w) ==
  LET t == worker[w].task
      unused == {e \in Executions : owner[e] = NoTask} IN
  /\ worker[w].at = "claim" /\ t # NoTask
  /\ \/ \E e \in unused :
          /\ ClaimGranted(t, e)
          /\ worker' = [worker EXCEPT ![w].at = "attempt", ![w].lease = e]
          /\ UNCHANGED faults
     \/ /\ (\E e \in Executions : ClaimUncertain(t, e)) \/ ClaimRefused(t)
        /\ worker' = [worker EXCEPT ![w].at = "ack"] /\ UNCHANGED faults
     \/ /\ faults < MaxFaults /\ faults' = faults + 1
        /\ worker' = [worker EXCEPT ![w].at = "ack"] /\ UNCHANGED ledgerVars
  /\ UNCHANGED <<outboxVars, redisVars, historyVars, aged, crashes>>

\* the request is sent although the attempt could not be recorded
AttemptIgnoringErrors(w) ==
  /\ worker[w].at = "attempt"
  /\ \/ RecordProviderAttempt(worker[w].lease) /\ UNCHANGED faults
     \/ faults < MaxFaults /\ faults' = faults + 1 /\ UNCHANGED ledgerVars
  /\ worker' = [worker EXCEPT ![w].at = "call"]
  /\ UNCHANGED <<outboxVars, redisVars, historyVars, aged, crashes>>

-----------------------------------------------------------------------------
(* Helpers.                                                                *)

Add(copies, m) == [copies EXCEPT ![m] = @ + 1]
Remove(copies, m) == [copies EXCEPT ![m] = IF @ = 0 THEN 0 ELSE @ - 1]   \* LREM 1

InWaiting(m) == \E i \in DOMAIN waiting : waiting[i] = m
InRedis(m) == InWaiting(m) \/ processing[m] > 0
Copies(m) == processing[m] + Cardinality({i \in DOMAIN waiting : waiting[i] = m})

(* The task whose row recovery and reaper look up for a message.           *)
Named == Tasks \ Generated

Goto(w, place) == worker' = [worker EXCEPT ![w].at = place]
Rest(w) == worker' = [worker EXCEPT ![w] = Resting("loop")]

(* A for loop over a batch or a snapshot drops the item it has dealt with. *)
DropItem(w, m, place) ==
  worker' = [worker EXCEPT ![w].todo = Remove(@, m), ![w].message = NoMessage,
                           ![w].at = place]

(* A database or Redis call of a worker raises an error.                   *)
Fault == faults < MaxFaults /\ faults' = faults + 1
NoFault == UNCHANGED faults

-----------------------------------------------------------------------------
(* Producers.                                                              *)

(* POST /api/tasks: one transaction for the task row and its outbox row.   *)
(* Admission limits are in Dashboard.                                      *)
CreateTask(t) ==
  /\ t \in Named \ Direct
  /\ RecordQueuedTask(t)
  /\ outbox' = [outbox EXCEPT ![t] = "pending"]
  /\ UNCHANGED <<claimant, redisVars, historyVars, aged, worker, crashes, faults>>

(* A script pushes a message itself.                                       *)
ProducerPush(m) ==
  /\ m \in Messages \ (Named \ Direct)
  /\ m \notin produced
  /\ produced' = produced \cup {m}
  /\ waiting' = Append(waiting, m)
  /\ UNCHANGED <<ledgerVars, outboxVars, processing, dead, called, answered,
                 published, aged, worker, crashes, faults>>

-----------------------------------------------------------------------------
(* dispatch_pending_outbox and cleanup_terminal_outbox.                    *)

Undelivered(t) == outbox[t] \in {"pending", "claimed", "lapsed"}

(* Undelivered rows of queued tasks that nobody claimed, or whose claim is *)
(* older than OUTBOX_CLAIM_SECONDS.                                        *)
Dispatchable == {t \in Tasks : outbox[t] \in {"pending", "lapsed"} /\ status[t] = "queued"}

(* The batch limit exceeds the number of tasks of any instance checked.    *)
ClaimPendingOutbox(w) ==
  /\ worker[w].at = "loop"
  /\ Dispatchable # {}
  /\ outbox' = [t \in Tasks |-> IF t \in Dispatchable THEN "claimed" ELSE outbox[t]]
  /\ claimant' = [t \in Tasks |-> IF t \in Dispatchable THEN w ELSE claimant[t]]
  /\ worker' = [worker EXCEPT ![w].at = "publish",
                  ![w].todo = [m \in Messages |-> IF m \in Dispatchable THEN 1 ELSE 0]]
  /\ UNCHANGED <<ledgerVars, redisVars, historyVars, aged, crashes, faults>>

(* RPUSH succeeds; or it raises, and the claim is retained until it lapses *)
(* (record_outbox_delivery_error writes only last_error).                  *)
Publish(w, t) ==
  /\ worker[w].at = "publish"
  /\ t \in Named /\ worker[w].todo[t] > 0
  /\ \/ /\ waiting' = Append(waiting, t)
        /\ published' = published \cup {t}
        /\ worker' = [worker EXCEPT ![w].at = "mark", ![w].message = t]
        /\ NoFault
     \/ /\ Fault
        /\ DropItem(w, t, "publish")
        /\ UNCHANGED <<waiting, published>>
  /\ UNCHANGED <<ledgerVars, outboxVars, processing, dead, produced, called,
                 answered, aged, crashes>>

PublishDone(w) ==
  /\ worker[w].at = "publish"
  /\ worker[w].todo = NoCopies
  /\ Rest(w)
  /\ UNCHANGED <<ledgerVars, outboxVars, redisVars, historyVars, aged, crashes, faults>>

(* mark_outbox_delivered matches the claim ID; if the update fails, the    *)
(* published row stays claimed and will be published again.                *)
MarkOutboxDelivered(w) ==
  LET t == worker[w].message IN
  /\ worker[w].at = "mark"
  /\ \/ /\ IF outbox[t] \in {"claimed", "lapsed"} /\ claimant[t] = w
           THEN /\ outbox' = [outbox EXCEPT ![t] = "delivered"]
                /\ claimant' = [claimant EXCEPT ![t] = NoWorker]
           ELSE UNCHANGED outboxVars
        /\ NoFault
     \/ Fault /\ UNCHANGED outboxVars
  /\ DropItem(w, t, "publish")
  /\ UNCHANGED <<ledgerVars, redisVars, historyVars, aged, crashes>>

(* Delivered payloads of settled tasks are deleted some time later.        *)
CleanupTerminalOutbox(w) ==
  LET removable == {t \in Tasks : outbox[t] = "delivered" /\ Terminal(t)} IN
  /\ worker[w].at = "loop"
  /\ removable # {}
  /\ outbox' = [t \in Tasks |-> IF t \in removable THEN "none" ELSE outbox[t]]
  /\ UNCHANGED <<ledgerVars, claimant, redisVars, historyVars, aged, worker, crashes, faults>>

-----------------------------------------------------------------------------
(* recover_stale_deliveries: iterate over a snapshot of the processing     *)
(* list, then reap_orphaned_queued_tasks.                                  *)

(* Is there a message recovery would move or a row the reaper would fail?  *)
Actionable ==
  \/ \E m \in Messages : processing[m] > 0 /\ (m \in Named => Recoverable(m) \/ Terminal(m))
  \/ \E t \in aged : status[t] = "queued"

(* Unless a worker may stall in the middle of a round, rounds that find    *)
(* nothing to do are left out, and a row that was there for more than the  *)
(* dispatch interval has been claimed just before in the same loop.        *)
StartRecovery(w) ==
  /\ worker[w].at = "loop"
  /\ Stalls \/ (Actionable /\ aged \cap Dispatchable = {})
  /\ worker' = [worker EXCEPT ![w].at = "recover", ![w].todo = processing]
  /\ UNCHANGED <<ledgerVars, outboxVars, redisVars, historyVars, aged, crashes, faults>>

(* A message without a usable task_id goes to the dead-letter list.  A     *)
(* Redis error here leaves the loop; the reaper runs all the same.         *)
RecoverInvalid(w, m) ==
  /\ worker[w].at = "recover"
  /\ worker[w].todo[m] > 0
  /\ m \notin Named
  /\ \/ /\ IF processing[m] > 0
           THEN processing' = Remove(processing, m) /\ dead' = Add(dead, m)
           ELSE UNCHANGED <<processing, dead>>
        /\ DropItem(w, m, "recover") /\ NoFault
     \/ /\ Fault
        /\ worker' = [worker EXCEPT ![w].todo = NoCopies]
        /\ UNCHANGED <<processing, dead>>
  /\ UNCHANGED <<ledgerVars, outboxVars, waiting, historyVars, aged, crashes>>

(* The transaction decides what becomes of the message; a database error   *)
(* leaves it for the next round.                                           *)
RecoverRow(w, t) ==
  /\ worker[w].at = "recover"
  /\ t \in Named /\ worker[w].todo[t] > 0
  /\ \/ /\ RecoverDelivery(t)
        /\ worker' = [worker EXCEPT ![w].at = "requeue", ![w].message = t]
        /\ NoFault
     \/ /\ Terminal(t)
        /\ worker' = [worker EXCEPT ![w].at = "acknowledge", ![w].message = t]
        /\ NoFault /\ UNCHANGED ledgerVars
     \/ /\ ~ Recoverable(t) /\ ~ Terminal(t)
        /\ DropItem(w, t, "recover")
        /\ NoFault /\ UNCHANGED ledgerVars
     \/ /\ Fault
        /\ DropItem(w, t, "recover")
        /\ UNCHANGED ledgerVars
  /\ UNCHANGED <<outboxVars, redisVars, historyVars, aged, crashes>>

(* The Lua script moves a copy back only if one is still in processing.    *)
RequeueStaleDelivery(w) ==
  LET m == worker[w].message IN
  /\ worker[w].at = "requeue"
  /\ \/ /\ processing[m] > 0
        /\ processing' = Remove(processing, m)
        /\ waiting' = <<m>> \o waiting
        /\ NoFault
     \/ processing[m] = 0 /\ NoFault /\ UNCHANGED <<processing, waiting>>
     \/ Fault /\ UNCHANGED <<processing, waiting>>
  /\ DropItem(w, m, "recover")
  /\ UNCHANGED <<ledgerVars, outboxVars, dead, historyVars, aged, crashes>>

AcknowledgeProcessingDelivery(w) ==
  LET m == worker[w].message IN
  /\ worker[w].at = "acknowledge"
  /\ \/ processing' = Remove(processing, m) /\ NoFault
     \/ Fault /\ UNCHANGED processing
  /\ DropItem(w, m, "recover")
  /\ UNCHANGED <<ledgerVars, outboxVars, waiting, dead, historyVars, aged, crashes>>

(* delivery_task_ids reads the two lists one after the other; the reaper   *)
(* gives up when a read fails.                                             *)
ReapReadWaiting(w) ==
  /\ worker[w].at = "recover"
  /\ worker[w].todo = NoCopies
  /\ \/ /\ worker' = [worker EXCEPT ![w].at = "reapProcessing",
                                    ![w].seen = {t \in Named : InWaiting(t)}]
        /\ NoFault
     \/ Fault /\ Rest(w)
  /\ UNCHANGED <<ledgerVars, outboxVars, redisVars, historyVars, aged, crashes>>

ReapReadProcessing(w) ==
  /\ worker[w].at = "reapProcessing"
  /\ \/ /\ worker' = [worker EXCEPT ![w].at = "reapRows",
                                    ![w].seen = @ \cup {t \in Named : processing[t] > 0}]
        /\ NoFault
     \/ Fault /\ Rest(w)
  /\ UNCHANGED <<ledgerVars, outboxVars, redisVars, historyVars, aged, crashes>>

ReapRows(w) ==
  /\ worker[w].at = "reapRows"
  /\ \/ /\ ReapOrphans({t \in aged : status[t] = "queued" /\ t \notin worker[w].seen})
        /\ NoFault
     \/ Fault /\ UNCHANGED ledgerVars
  /\ Rest(w)
  /\ UNCHANGED <<outboxVars, redisVars, historyVars, aged, crashes>>

-----------------------------------------------------------------------------
(* handle_delivery.                                                        *)

(* BLMOVE from the head of TASK_QUEUE to PROCESSING_QUEUE.  A nameless     *)
(* message gets a fresh task ID; one that fails validation goes to the     *)
(* dead-letter list first and is acknowledged then.                        *)
Receive(w) ==
  /\ worker[w].at = "loop"
  /\ waiting # <<>>
  /\ LET m == Head(waiting) IN
     /\ waiting' = Tail(waiting)
     /\ processing' = Add(processing, m)
     /\ \/ /\ m \in Named
           /\ worker' = [worker EXCEPT ![w].at = "claim", ![w].message = m, ![w].task = m]
        \/ /\ m \in Nameless
           /\ \E t \in Generated :
                /\ status[t] = "absent" /\ \A v \in Workers : worker[v].task # t
                /\ worker' = [worker EXCEPT ![w].at = "claim", ![w].message = m, ![w].task = t]
        \/ /\ m \in Misnamed
           /\ worker' = [worker EXCEPT ![w].at = "claim", ![w].message = m]
        \/ /\ m \in Malformed
           /\ worker' = [worker EXCEPT ![w].at = "deadletter", ![w].message = m]
  /\ UNCHANGED <<ledgerVars, outboxVars, dead, historyVars, aged, crashes, faults>>

(* BLMOVE times out on an empty list and the loop goes round.              *)
ReceiveTimesOut(w) ==
  /\ worker[w].at = "loop"
  /\ waiting = <<>>
  /\ UNCHANGED vars

DeadLetter(w) ==
  /\ worker[w].at = "deadletter"
  /\ dead' = Add(dead, worker[w].message)
  /\ Goto(w, "ack")
  /\ UNCHANGED <<ledgerVars, outboxVars, waiting, processing, historyVars, aged, crashes, faults>>

(* Fresh uuid4; bound: the set Executions.                                 *)
Unused == {e \in Executions : owner[e] = NoTask}

(* claim_task: a lease, or the message is acknowledged as a duplicate, or  *)
(* the transaction raises and the message is retained in processing.  A    *)
(* task_id that is no UUID always raises.                                  *)
Claim(w) ==
  LET t == worker[w].task IN
  /\ worker[w].at = "claim"
  /\ \/ /\ t # NoTask
        /\ LET e == CHOOSE x \in Unused : TRUE IN
           /\ Unused # {}
           /\ ClaimGranted(t, e)
           /\ worker' = [worker EXCEPT ![w].at = "attempt", ![w].lease = e]
        /\ NoFault
     \/ /\ t # NoTask
        /\ (\E e \in Executions : ClaimUncertain(t, e)) \/ ClaimRefused(t)
        /\ Goto(w, "ack") /\ NoFault
     \/ t = NoTask /\ Rest(w) /\ NoFault /\ UNCHANGED ledgerVars
     \/ Fault /\ Rest(w) /\ UNCHANGED ledgerVars
  /\ UNCHANGED <<outboxVars, redisVars, historyVars, aged, crashes>>

(* The attempt row is committed before any request leaves the worker.      *)
Attempt(w) ==
  /\ worker[w].at = "attempt"
  /\ \/ RecordProviderAttempt(worker[w].lease) /\ Goto(w, "call") /\ NoFault
     \/ Fault /\ Goto(w, "fail") /\ UNCHANGED ledgerVars
  /\ UNCHANGED <<outboxVars, redisVars, historyVars, aged, crashes>>

(* gigachat.complete or gigachat.embed sends its request; or it rejects    *)
(* the payload or finds no credential before sending one.                  *)
Call(w) ==
  /\ worker[w].at = "call"
  /\ worker[w].task \notin Smoke \cup Unsupported
  /\ \/ called' = called \cup {worker[w].lease} /\ Goto(w, "await")
     \/ Goto(w, "fail") /\ UNCHANGED called
  /\ UNCHANGED <<ledgerVars, outboxVars, redisVars, produced, answered, published,
                 aged, crashes, faults>>

(* The provider answers, or the client gives up with a ProviderError.      *)
Await(w) ==
  /\ worker[w].at = "await"
  /\ \/ answered' = answered \cup {worker[w].lease} /\ Goto(w, "complete")
     \/ Goto(w, "fail") /\ UNCHANGED answered
  /\ UNCHANGED <<ledgerVars, outboxVars, redisVars, produced, called, published,
                 aged, crashes, faults>>

(* "local-smoke-test" completes without a call, any other provider raises. *)
SkipCall(w) ==
  /\ worker[w].at = "call"
  /\ \/ worker[w].task \in Smoke /\ Goto(w, "complete")
     \/ worker[w].task \in Unsupported /\ Goto(w, "fail")
  /\ UNCHANGED <<ledgerVars, outboxVars, redisVars, historyVars, aged, crashes, faults>>

(* record_completion commits; or it raises before the commit, or after it  *)
(* when the connection is lost: the handler cannot tell the last two apart *)
(* and goes on to record_failed.                                           *)
Complete(w) ==
  /\ worker[w].at = "complete"
  /\ \/ RecordCompletion(worker[w].lease) /\ Goto(w, "ack") /\ NoFault
     \/ RecordCompletion(worker[w].lease) /\ Goto(w, "fail") /\ Fault
     \/ Goto(w, "fail") /\ Fault /\ UNCHANGED ledgerVars
  /\ UNCHANGED <<outboxVars, redisVars, historyVars, aged, crashes>>

(* record_failed commits; or it raises and the message is retained.        *)
RecordFailure(w) ==
  /\ worker[w].at = "fail"
  /\ \/ RecordFailed(worker[w].lease) /\ Goto(w, "ack") /\ NoFault
     \/ Fault /\ Rest(w) /\ UNCHANGED ledgerVars
  /\ UNCHANGED <<outboxVars, redisVars, historyVars, aged, crashes>>

(* LREM after handle_delivery returned True.                               *)
Acknowledge(w) ==
  /\ worker[w].at = "ack"
  /\ processing' = Remove(processing, worker[w].message)
  /\ Rest(w)
  /\ UNCHANGED <<ledgerVars, outboxVars, waiting, dead, historyVars, aged, crashes, faults>>

-----------------------------------------------------------------------------
(* The environment: process deaths and the clock.                          *)

(* The container dies, or a Redis error leaves run_worker.                 *)
Crash(w) ==
  /\ worker[w].at # "down"
  /\ crashes < MaxCrashes
  /\ crashes' = crashes + 1
  /\ worker' = [worker EXCEPT ![w] = Resting("down")]
  /\ UNCHANGED <<ledgerVars, outboxVars, redisVars, historyVars, aged, faults>>

(* restart: unless-stopped.                                                *)
Restart(w) ==
  /\ worker[w].at = "down"
  /\ Rest(w)
  /\ UNCHANGED <<ledgerVars, outboxVars, redisVars, historyVars, aged, crashes, faults>>

(* Minutes pass.  Unless Stalls, only while every live worker blocks on    *)
(* BLMOVE or on the provider: the other steps take seconds at most.        *)
MinutesPass == Stalls \/ \A w \in Workers : worker[w].at \in {"loop", "down", "await"}

Executing(t) == \E w \in Workers : worker[w].lease # NoExecution /\ worker[w].lease = execution[t]

(* Bound: an unused execution ID is kept for every claim still possible.   *)
LeaseBudget ==
  Cardinality(Unused) > Cardinality({t \in Tasks : Recoverable(t)})

(* TASK_LEASE_SECONDS after the claim.                                     *)
LeaseRunsOut(t) ==
  /\ MinutesPass
  /\ Stalls \/ ~ Executing(t)
  /\ LeaseBudget
  /\ LeaseExpires(t)
  /\ UNCHANGED <<outboxVars, redisVars, historyVars, aged, worker, crashes, faults>>

(* OUTBOX_CLAIM_SECONDS after the claim of an outbox row.                  *)
OutboxClaimLapses(t) ==
  /\ MinutesPass
  /\ outbox[t] = "claimed"
  /\ Copies(t) < MaxCopies
  /\ outbox' = [outbox EXCEPT ![t] = "lapsed"]
  /\ UNCHANGED <<ledgerVars, claimant, redisVars, historyVars, aged, worker, crashes, faults>>

(* ORPHANED_QUEUED_SECONDS after the row was created.  Unless Stalls, a    *)
(* row stays undelivered for so long only while no worker runs, and a      *)
(* claim on it has lapsed long before.                                     *)
TaskAges(t) ==
  /\ MinutesPass
  /\ Undelivered(t) =>
       Stalls \/ (outbox[t] # "claimed" /\ \A w \in Workers : worker[w].at # "loop")
  /\ status[t] = "queued"
  /\ t \notin aged
  /\ aged' = aged \cup {t}
  /\ UNCHANGED <<ledgerVars, outboxVars, redisVars, historyVars, worker, crashes, faults>>

-----------------------------------------------------------------------------
Dispatch(w) ==
  ClaimPendingOutbox(w) \/ (\E t \in Tasks : Publish(w, t)) \/ PublishDone(w) \/ MarkOutboxDelivered(w)

Recover(w) ==
  \/ \E m \in Messages : RecoverInvalid(w, m) \/ RecoverRow(w, m)
  \/ RequeueStaleDelivery(w) \/ AcknowledgeProcessingDelivery(w)
  \/ ReapReadWaiting(w) \/ ReapReadProcessing(w) \/ ReapRows(w)

Handle(w) ==
  \/ DeadLetter(w) \/ Claim(w) \/ Attempt(w) \/ Call(w) \/ Await(w) \/ SkipCall(w)
  \/ Complete(w) \/ RecordFailure(w) \/ Acknowledge(w)

Next ==
  \/ \E t \in Tasks : CreateTask(t) \/ LeaseRunsOut(t) \/ OutboxClaimLapses(t) \/ TaskAges(t)
  \/ \E m \in Messages : ProducerPush(m)
  \/ \E w \in Workers :
       \/ Dispatch(w) \/ CleanupTerminalOutbox(w)
       \/ StartRecovery(w) \/ Recover(w)
       \/ Receive(w) \/ ReceiveTimesOut(w) \/ Handle(w)
       \/ Crash(w) \/ Restart(w)

Spec == Init /\ [][Next]_vars

(***************************************************************************)
(* Fairness.  A step in the middle of the loop, of a transaction or of a   *)
(* provider request ends (timeouts bound every call), containers restart,  *)
(* clocks advance: weak fairness.  A worker at the top of its loop chooses *)
(* by timers and by BLMOVE; every branch gets its turn because each timer  *)
(* runs down whatever the others do and a branch is left after finitely    *)
(* many steps: strong fairness.                                            *)
(***************************************************************************)
Fairness ==
  /\ \A w \in Workers :
       /\ WF_vars((\E t \in Tasks : Publish(w, t)) \/ PublishDone(w) \/ MarkOutboxDelivered(w))
       /\ WF_vars(Recover(w))
       /\ WF_vars(Handle(w))
       /\ WF_vars(Restart(w))
       /\ SF_vars(ClaimPendingOutbox(w))
       /\ SF_vars(StartRecovery(w))
       /\ SF_vars(Receive(w))
  /\ \A t \in Tasks :
       /\ WF_vars(LeaseRunsOut(t))
       /\ WF_vars(OutboxClaimLapses(t))
       /\ WF_vars(TaskAges(t))

FairSpec == Spec /\ Fairness

-----------------------------------------------------------------------------
(* Properties of every instance: any number of workers, crashes, faults,   *)
(* duplicates and stalls.                                                  *)

(* No request reaches the provider before its attempt row is committed, so *)
(* a call whose worker dies can be found (handle_delivery's order of       *)
(* record_provider_attempt and the client call).                           *)
CallIsOnRecord == \A e \in called : attempt[e] # "none"

(* A task is shown as succeeded, and a cost receipt exists, only for an    *)
(* execution whose own request was answered: no answer is credited to      *)
(* another lease.                                                          *)
SuccessWasAnswered ==
  /\ \A t \in Tasks \ Smoke : status[t] = "succeeded" => execution[t] \in answered
  /\ \A e \in receipts : owner[e] \notin Smoke => e \in answered

(* A message no worker can execute is never dropped: it waits, is being    *)
(* looked at, or is in the dead-letter list, whichever of recovery and     *)
(* handler gets hold of it and wherever they die.                          *)
InvalidIsKept ==
  \A m \in produced \cap (Misnamed \cup Malformed) : InRedis(m) \/ dead[m] > 0

(* An outbox row is marked delivered only after its request was pushed,    *)
(* however claims lapse and are taken over.                                *)
DeliveredWasPublished == \A t \in Tasks : outbox[t] = "delivered" => t \in published

(* A succeeded task never names an attempt that is still open or that is   *)
(* recorded as failed: record_completion closes it in the transaction of   *)
(* the result, or a duplicate had closed it before, and no failure that is *)
(* recorded late undoes that.                                              *)
SuccessClosesAttempt ==
  \A t \in Tasks :
    status[t] = "succeeded" => attempt[execution[t]] \in {"completed", "outcome_unknown"}

(* The last copy of an unsettled task's message leaves Redis only by the   *)
(* acknowledgement of a handler that does not hold the task's lease (it    *)
(* was refused one, or it has lost it): neither recovery nor the executor  *)
(* of the task drops it, whatever the other workers do between a           *)
(* transaction and the Redis command it leads to.                          *)
LastCopyOutlivesWork ==
  [][\A t \in Named :
       InRedis(t) /\ ~ InRedis(t)' /\ ~ Terminal(t) =>
         \E w \in Workers :
           /\ worker[w].at = "ack" /\ worker[w].message = t
           /\ worker[w].lease = NoExecution \/ worker[w].lease # execution[t]]_vars

-----------------------------------------------------------------------------
(* Properties of every instance without Stalls: any number of workers.     *)

(* No two live workers hold leases of one task at a time: the lease gate   *)
(* of claim_task and the age test of recovery exclude it as long as no     *)
(* live worker outlasts its lease.                                         *)
SingleExecutor ==
  \A v, w \in Workers :
    /\ v # w
    /\ worker[v].lease # NoExecution /\ worker[w].lease # NoExecution
    => owner[worker[v].lease] # owner[worker[w].lease]

(* A worker that is about to send a request, or waits for its answer, has  *)
(* the only attempt of its task whose outcome is open: claim_task grants   *)
(* no lease while an earlier request may still be executed.                *)
NoCallInDoubt ==
  \A w \in Workers :
    worker[w].at \in {"call", "await"} => Inflight(worker[w].task) \subseteq {worker[w].lease}

(* "... without duplicating a provider call" (recover_stale_deliveries) is *)
(* kept while no process dies and no database or Redis call fails, though  *)
(* recovery puts duplicates of messages that are being handled into the    *)
(* task queue.                                                             *)
NoFailureOneCall ==
  crashes + faults = 0 => \A e, f \in called : owner[e] = owner[f] => e = f

-----------------------------------------------------------------------------
(* Properties whose truth depends on the instance.                         *)

(* "... without duplicating a provider call" (recover_stale_deliveries):   *)
(* at most one request per task leaves the workers.                        *)
ProviderCalledOnce ==
  \A t \in Tasks : Cardinality({e \in called : owner[e] = t}) <= 1

(* One crash or one failed call does not suffice to break that promise.    *)
OneFailureOneCall == crashes + faults <= 1 => ProviderCalledOnce

(* A task that is not settled still has something that will drive it: an   *)
(* undelivered outbox row or a copy of its message in Redis.               *)
NoDeliveryLost ==
  \A t \in Named :
    status[t] \in {"queued", "running"} =>
      Undelivered(t) \/ InRedis(t)

(* The reaper's step on task t.  An uncertain claim, the other step from   *)
(* queued to failed, concludes an attempt.                                 *)
Reaped(t) == status[t] = "queued" /\ status'[t] = "failed" /\ UNCHANGED attempt

(* The outbox "is the primary repair path; this reaper remains a bounded   *)
(* safeguard for legacy or manually-created rows".                         *)
ReaperSparesOutbox ==
  [][\A t \in Tasks : Reaped(t) => ~ Undelivered(t)]_vars

(* A succeeded task and the attempt that produced its result agree.        *)
SuccessCompletesAttempt ==
  \A t \in Tasks : status[t] = "succeeded" => attempt[execution[t]] = "completed"

(* Every answered request whose handler has concluded left a receipt: the  *)
(* provider charged for it.                                                *)
AnsweredIsReceipted ==
  \A e \in answered : attempt[e] = "failed" => e \in receipts

(* Every accepted task is settled.                                         *)
EveryTaskSettles ==
  \A t \in Tasks : status[t] \in {"queued", "running"} ~> Terminal(t)

(* Every accepted request reaches Redis unless its task is settled first.  *)
OutboxDrains ==
  \A t \in Tasks : outbox[t] = "pending" ~> (outbox[t] \in {"delivered", "none"} \/ Terminal(t))
=============================================================================
