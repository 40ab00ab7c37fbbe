------------------------- MODULE EvaluatorEvolution -------------------------
(***************************************************************************)
(* Evaluator versions, their benchmark runs and the decisions that promote *)
(* or revert them (evaluator_evolution.py, evaluator_storage.py).  A       *)
(* script builds its EvaluatorVersion objects itself, with any state, and  *)
(* an object keeps the state it was built with whatever becomes of the     *)
(* row: decisions are taken on objects, and of the table only the          *)
(* candidate's row is asked when one is persisted.  Objects of a version   *)
(* agree on everything else, its Definition.                               *)
(***************************************************************************)
EXTENDS Naturals, Sequences

CONSTANTS
  Versions,      \* (evaluator_kind, version_label)
  NoVersion,     \* SQL NULL in parent_id
  Definition,    \* what never changes about a version
  Runs,          \* evaluation runs scripts may persist
  MaxDecisions   \* bound: decisions on one version

ASSUME EvolutionAssumption ==
  /\ NoVersion \notin Versions
  /\ \A v \in Versions :
       /\ Definition[v].parent \in (Versions \ {v}) \cup {NoVersion}
       /\ Definition[v].frozen \subseteq Definition[v].active
  /\ \A r \in Runs :
       /\ r.evaluator \in Versions /\ r.independent \in BOOLEAN /\ r.cases \in Nat \ {0}
       /\ r.primary \in 0 .. 100 /\ r.safety \in 0 .. 100 /\ r.calibration \in 0 .. 100
  /\ MaxDecisions \in Nat

VersionStates == {"proposed", "shadow", "promoted", "reverted"}

VARIABLES
  state,      \* evaluator_versions.state, "absent" when there is no row
  runs,       \* evaluator_runs
  decisions   \* evaluator_decisions of a candidate, oldest first

evolutionVars == <<state, runs, decisions>>

EvolutionTypeOK ==
  /\ state \in [Versions -> VersionStates \cup {"absent"}]
  /\ runs \subseteq Runs
  /\ decisions \in [Versions -> Seq({"shadow", "promoted", "reverted"})]

EvolutionInit ==
  /\ state = [v \in Versions |-> "absent"]
  /\ runs = {}
  /\ decisions = [v \in Versions |-> <<>>]

Parent(v) == Definition[v].parent
IsRoot(v) == Parent(v) = NoVersion

-----------------------------------------------------------------------------
(* Deliberate mistakes: operations with one error a programmer could make. *)
(* No specification uses them; each shows which property catches it.       *)

\* the label's row takes the state of whatever object is registered
RegisterOverwriting(v, s) ==
  /\ ~ IsRoot(v) => state[Parent(v)] # "absent"
  /\ state' = [state EXCEPT ![v] = s]
  /\ UNCHANGED <<runs, decisions>>

\* a decision is applied to any row
DecideAnyState(b, c, base, cand) ==
  /\ Parent(c) = b /\ base.evaluator = b /\ cand.evaluator = c
  /\ {base, cand} \subseteq runs
  /\ Len(decisions[c]) < MaxDecisions
  /\ \E verdict \in {"shadow", "promoted", "reverted"} :
       /\ state' = [state EXCEPT ![c] = verdict]
       /\ decisions' = [decisions EXCEPT ![c] = Append(@, verdict)]
  /\ UNCHANGED runs

\* the gate of the independent assessor is missing
VerdictOfAnyAssessor(b, c, base, cand) ==
  IF base.cohort # cand.cohort THEN "shadow"
  ELSE IF ~ (Definition[b].frozen \subseteq Definition[c].active) THEN "reverted"
  ELSE IF base.cases < 20 \/ cand.cases < 20 THEN "shadow"
  ELSE IF cand.safety < base.safety \/ cand.primary < base.primary THEN "reverted"
  ELSE IF cand.primary < base.primary + 2 THEN "shadow"
  ELSE IF cand.calibration < base.calibration THEN "shadow"
  ELSE "promoted"

-----------------------------------------------------------------------------
(* persist_evaluator_version of an object in any state: insert, or accept  *)
(* an object equal to the row in every column, its state included; any     *)
(* other object is refused.                                                *)
RegisterVersion(v, s) ==
  /\ ~ IsRoot(v) => state[Parent(v)] # "absent"
  /\ state[v] \in {"absent", s}
  /\ state' = [state EXCEPT ![v] = s]
  /\ UNCHANGED <<runs, decisions>>

(* persist_evaluation_run                                                  *)
PersistRun(r) ==
  /\ state[r.evaluator] # "absent"
  /\ runs' = runs \cup {r}
  /\ UNCHANGED <<state, decisions>>

MinimumHoldoutCases == 20
PrimaryImprovement == 2

(* decide_evaluator_transition, with metrics in per cent.  A run counts as *)
(* independent when its assessor is one and did not propose the candidate. *)
Verdict(b, c, base, cand) ==
  IF base.cohort # cand.cohort THEN "shadow"
  ELSE IF ~ (Definition[b].frozen \subseteq Definition[c].active) THEN "reverted"
  ELSE IF ~ cand.independent THEN "shadow"
  ELSE IF base.cases < MinimumHoldoutCases \/ cand.cases < MinimumHoldoutCases THEN "shadow"
  ELSE IF cand.safety < base.safety \/ cand.primary < base.primary THEN "reverted"
  ELSE IF cand.primary < base.primary + PrimaryImprovement THEN "shadow"
  ELSE IF cand.calibration < base.calibration THEN "shadow"
  ELSE "promoted"

(* decide_evaluator_transition and persist_evaluator_decision: one         *)
(* transaction that updates the candidate's row if it is still open.  The  *)
(* baseline is an object its script calls promoted; its row is not read.   *)
PersistDecision(b, c, base, cand) ==
  /\ Parent(c) = b /\ Definition[c].kind = Definition[b].kind
  /\ base.evaluator = b /\ cand.evaluator = c
  /\ {base, cand} \subseteq runs
  /\ state[c] \in {"proposed", "shadow"}
  /\ Len(decisions[c]) < MaxDecisions
  /\ LET verdict == Verdict(b, c, base, cand) IN
     /\ state' = [state EXCEPT ![c] = verdict]
     /\ decisions' = [decisions EXCEPT ![c] = Append(@, verdict)]
  /\ UNCHANGED runs

EvolutionNext ==
  \/ \E v \in Versions, s \in VersionStates : RegisterVersion(v, s)
  \/ \E r \in Runs : PersistRun(r)
  \/ \E b, c \in Versions, base, cand \in Runs : PersistDecision(b, c, base, cand)

EvolutionSpec == EvolutionInit /\ [][EvolutionNext]_evolutionVars

-----------------------------------------------------------------------------
(* A version that decisions were taken on is promoted only on the strength *)
(* of two persisted runs that pass every gate, whatever scripts register,  *)
(* repeat or decide on objects that are out of date.  (A version           *)
(* registered as promoted was never judged, and a baseline may be such a   *)
(* one or no longer promoted in the table.)                                *)
PromotionIsEarned ==
  \A c \in Versions :
    state[c] = "promoted" /\ decisions[c] # <<>> =>
      \E base, cand \in runs :
        /\ base.evaluator = Parent(c) /\ cand.evaluator = c
        /\ base.cohort = cand.cohort /\ base.cases >= 20 /\ cand.cases >= 20
        /\ cand.independent
        /\ cand.safety >= base.safety /\ cand.calibration >= base.calibration
        /\ cand.primary >= base.primary + 2

(* The decision log explains the table: the row of a candidate stands      *)
(* where its last decision put it, and no decision follows a verdict.      *)
StateIsLastDecision ==
  \A c \in Versions :
    LET log == decisions[c] IN
    /\ log # <<>> => state[c] = log[Len(log)]
    /\ \A i \in 1 .. Len(log) - 1 : log[i] = "shadow"

(* "A label collision cannot silently overwrite a previously registered    *)
(* evaluator" (persist_evaluator_version), nor can a late decision: once   *)
(* promoted or reverted, a version stays so.                               *)
VerdictIsFinal ==
  [][\A v \in Versions : state[v] \in {"promoted", "reverted"} => state'[v] = state[v]
    ]_evolutionVars
=============================================================================
