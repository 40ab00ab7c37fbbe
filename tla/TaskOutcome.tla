---------------------------- MODULE TaskOutcome ----------------------------
(***************************************************************************)
(* What the control plane promises to whoever submits a task, with no      *)
(* workers, queues, leases or attempts in sight: a task is accepted once,  *)
(* stays open for a while, and is settled once and for all; a success is   *)
(* never visible without the cost receipt of the call that produced it.    *)
(* TaskLedger implements this specification.                               *)
(***************************************************************************)
CONSTANT Tasks

VARIABLES
  phase,    \* phase[t]: where task t stands for its submitter
  billed    \* the tasks whose visible result has a cost receipt

outcomeVars == <<phase, billed>>

OutcomeTypeOK ==
  /\ phase \in [Tasks -> {"unknown", "open", "succeeded", "failed"}]
  /\ billed \in SUBSET Tasks

OutcomeInit ==
  /\ phase = [t \in Tasks |-> "unknown"]
  /\ billed = {}

Accept(t) ==
  /\ phase[t] = "unknown"
  /\ phase' = [phase EXCEPT ![t] = "open"]
  /\ UNCHANGED billed

Succeed(t) ==
  /\ phase[t] = "open"
  /\ phase' = [phase EXCEPT ![t] = "succeeded"]
  /\ billed' = billed \cup {t}

(* The reaper may settle several tasks in one transaction.                 *)
Fail(S) ==
  /\ \A t \in S : phase[t] = "open"
  /\ phase' = [t \in Tasks |-> IF t \in S THEN "failed" ELSE phase[t]]
  /\ UNCHANGED billed

OutcomeNext ==
  \/ \E t \in Tasks : Accept(t) \/ Succeed(t)
  \/ \E S \in SUBSET Tasks : Fail(S)

OutcomeSpec == OutcomeInit /\ [][OutcomeNext]_outcomeVars
=============================================================================
