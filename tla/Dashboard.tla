----------------------------- MODULE Dashboard -----------------------------
(***************************************************************************)
(* Admission of tasks in dashboard/app.py.  POST /api/tasks reads the      *)
(* length of the Redis list, counts the lane's rows of the last 24 hours   *)
(* and inserts task row and outbox row, in three calls with nothing that   *)
(* holds them together; FastAPI runs the handlers of a process in a pool   *)
(* of threads.  The workers that drain the outbox and the list are reduced *)
(* to what admission can see of them (ControlPlane has the rest).          *)
(***************************************************************************)
EXTENDS Naturals, FiniteSets

CONSTANTS
  Primary, Freemium,   \* the requests of each credential lane
  Direct,              \* those of them a script pushes to Redis itself
  Threads,             \* handlers that can run at a time
  MaxQueueDepth,       \* DASHBOARD_MAX_QUEUE_DEPTH
  MaxTasksPerLane      \* DASHBOARD_MAX_TASKS_PER_LANE_PER_DAY

Requests == Primary \cup Freemium
Lanes == {Primary, Freemium}

ASSUME DashboardAssumption ==
  /\ IsFiniteSet(Requests) /\ Primary \cap Freemium = {}
  /\ Direct \subseteq Requests
  /\ Threads \in Nat \ {0}
  /\ MaxQueueDepth \in Nat \ {0} /\ MaxTasksPerLane \in Nat \ {0}

VARIABLES
  stage,     \* how far each request is in create_task
  recent,    \* requests with a task row created in the last 24 hours
  pending,   \* requests with an undelivered outbox row
  queue      \* requests in the Redis list

dashboardVars == <<stage, recent, pending, queue>>

Stages == {"new", "depth", "budget", "record", "accepted", "refused", "unavailable"}

DashboardTypeOK ==
  /\ stage \in [Requests -> Stages]
  /\ recent \in SUBSET Requests
  /\ pending \in SUBSET Requests
  /\ queue \in SUBSET Requests

DashboardInit ==
  /\ stage = [r \in Requests |-> "new"]
  /\ recent = {} /\ pending = {} /\ queue = {}

Lane(r) == IF r \in Primary THEN Primary ELSE Freemium

(* daily_lane_task_count                                                   *)
TasksOf(lane) == Cardinality(recent \cap lane)

Running == {r \in Requests : stage[r] \in {"depth", "budget", "record"}}

-----------------------------------------------------------------------------
(* Deliberate mistakes: operations with one error a programmer could make. *)

\* the limit itself is still admitted
BudgetOffByOne(r) ==
  /\ stage[r] = "budget"
  /\ \/ stage' = [stage EXCEPT ![r] =
                    IF TasksOf(Lane(r)) > MaxTasksPerLane THEN "refused" ELSE "record"]
     \/ stage' = [stage EXCEPT ![r] = "unavailable"]
  /\ UNCHANGED <<recent, pending, queue>>

-----------------------------------------------------------------------------
(* create_task: the model name was valid and a thread takes the request.   *)
Receive(r) ==
  /\ r \notin Direct
  /\ stage[r] = "new"
  /\ Cardinality(Running) < Threads
  /\ stage' = [stage EXCEPT ![r] = "depth"]
  /\ UNCHANGED <<recent, pending, queue>>

(* LLEN, or a Redis error (503).                                           *)
CheckDepth(r) ==
  /\ stage[r] = "depth"
  /\ \/ stage' = [stage EXCEPT ![r] =
                    IF Cardinality(queue) >= MaxQueueDepth THEN "refused" ELSE "budget"]
     \/ stage' = [stage EXCEPT ![r] = "unavailable"]
  /\ UNCHANGED <<recent, pending, queue>>

(* The count of a transaction of its own, or a database error (503).       *)
CheckBudget(r) ==
  /\ stage[r] = "budget"
  /\ \/ stage' = [stage EXCEPT ![r] =
                    IF TasksOf(Lane(r)) >= MaxTasksPerLane THEN "refused" ELSE "record"]
     \/ stage' = [stage EXCEPT ![r] = "unavailable"]
  /\ UNCHANGED <<recent, pending, queue>>

(* record_queued_task commits both rows; or it raises, before the commit   *)
(* or after it, when the answer to COMMIT is lost.                         *)
Record(r) ==
  /\ stage[r] = "record"
  /\ \/ /\ recent' = recent \cup {r} /\ pending' = pending \cup {r}
        /\ \/ stage' = [stage EXCEPT ![r] = "accepted"]
           \/ stage' = [stage EXCEPT ![r] = "unavailable"]
     \/ stage' = [stage EXCEPT ![r] = "unavailable"] /\ UNCHANGED <<recent, pending>>
  /\ UNCHANGED queue

-----------------------------------------------------------------------------
(* The workers and the clock, as far as admission sees them.               *)

(* dispatch_pending_outbox                                                 *)
Deliver(r) ==
  /\ r \in pending
  /\ pending' = pending \ {r}
  /\ queue' = queue \cup {r}
  /\ UNCHANGED <<stage, recent>>

(* A script pushes a task; it is counted for its lane once claimed.        *)
PushDirect(r) ==
  /\ r \in Direct
  /\ stage[r] = "new"
  /\ stage' = [stage EXCEPT ![r] = "accepted"]
  /\ queue' = queue \cup {r}
  /\ UNCHANGED <<recent, pending>>

(* BLMOVE and claim_task, which inserts the row of a task that has none.   *)
Take(r) ==
  /\ r \in queue
  /\ queue' = queue \ {r}
  /\ recent' = IF r \in Direct THEN recent \cup {r} ELSE recent
  /\ UNCHANGED <<stage, pending>>

(* The row leaves the rolling window.                                      *)
DayPasses(r) ==
  /\ r \in recent
  /\ recent' = recent \ {r}
  /\ UNCHANGED <<stage, pending, queue>>

DashboardNext ==
  \E r \in Requests :
    \/ Receive(r) \/ CheckDepth(r) \/ CheckBudget(r) \/ Record(r)
    \/ Deliver(r) \/ PushDirect(r) \/ Take(r) \/ DayPasses(r)

DashboardSpec == DashboardInit /\ [][DashboardNext]_dashboardVars

-----------------------------------------------------------------------------
(* However the handlers interleave, a lane never holds more dashboard      *)
(* tasks than its budget and one for every further handler that was        *)
(* running: the unguarded gap between count and insert costs no more.      *)
OvershootBounded ==
  \A lane \in Lanes :
    Cardinality((recent \ Direct) \cap lane) <= MaxTasksPerLane + Threads - 1

(* "Maximum accepted dashboard tasks per credential lane in a rolling 24   *)
(* hours" (.env.example on the lane budget).                               *)
LaneBudgetHolds ==
  \A lane \in Lanes : Cardinality((recent \ Direct) \cap lane) <= MaxTasksPerLane

(* "The dashboard refuses new work when this many items are waiting"       *)
(* (.env.example on the queue depth): a row is never added on top of a     *)
(* full backlog.                                                           *)
FullBacklogRefuses ==
  [][\A r \in Requests :
        r \in pending' \ pending => Cardinality(pending \cup queue) < MaxQueueDepth
    ]_dashboardVars
=============================================================================
