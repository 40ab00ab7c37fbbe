---------------------------- MODULE ReaperWatch ----------------------------
(***************************************************************************)
(* ControlPlane with a history variable that watches the reaper of         *)
(* orchestrator/worker.py.  It looks at the task queue, then at the        *)
(* processing list and then at the rows, and the other workers, the        *)
(* dispatcher and the producers move messages in the meantime.             *)
(***************************************************************************)
EXTENDS ControlPlane

VARIABLE
  arrived   \* for each worker whose reaper has read the task queue: the
            \* tasks whose message has come into that queue since

watchVars == <<vars, arrived>>

Reaping == {"reapProcessing", "reapRows"}

Arrivals == {t \in Named : ~ InWaiting(t) /\ InWaiting(t)'}

(* The history of a step follows from the step alone.                      *)
Watch ==
  arrived' = [w \in Workers |->
                IF worker[w].at \in Reaping /\ worker'[w].at \in Reaping
                THEN arrived[w] \cup Arrivals
                ELSE {}]

WatchInit == Init /\ arrived = [w \in Workers |-> {}]
WatchNext == Next /\ Watch
WatchSpec == WatchInit /\ [][WatchNext]_watchVars

(* "Fail long-lived queued rows whose raw delivery is absent from Redis."  *)
(* The reaper fails a row whose message is in Redis only if that message   *)
(* came into the task queue after this reaper had read the queue: a        *)
(* message a worker moves on to the processing list between the two reads  *)
(* of delivery_task_ids is not overlooked.                                 *)
ReaperSparesDelivered ==
  [][\A t \in Named :
       Reaped(t) /\ InRedis(t) =>
         \E w \in Workers :
           /\ worker[w].at = "reapRows" /\ worker'[w].at # "reapRows"
           /\ t \in arrived[w]]_watchVars
=============================================================================
