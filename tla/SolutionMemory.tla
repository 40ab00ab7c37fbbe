--------------------------- MODULE SolutionMemory ---------------------------
(***************************************************************************)
(* The memory of reusable solutions (solution_memory.py,                   *)
(* response_replay_memory.py, persist_solution_* of evaluator_storage.py)  *)
(* on top of the evaluator runs its outcomes refer to.  A writer is the    *)
(* transaction of a script, under READ COMMITTED: its statements see what  *)
(* others have committed and what it wrote itself.  An outcome of an asset *)
(* is identified with the evaluator run it is drawn from.                  *)
(***************************************************************************)
EXTENDS EvaluatorEvolution, FiniteSets, FiniteSetsExt

CONSTANTS
  Assets,     \* solution assets
  NoAsset,    \* no asset
  Writers     \* connections that may persist outcomes

ASSUME MemoryAssumption == NoAsset \notin Assets

VARIABLES
  asset,        \* solution_assets.state, "absent" when there is no row
  outcomes,     \* committed solution_outcomes of each asset
  writer,       \* the open transaction of each writer
  overlapped    \* assets on which two transactions were open at a time

memoryVars == <<asset, outcomes, writer, overlapped>>
storageVars == <<evolutionVars, memoryVars>>

AssetStates == {"candidate", "promoted", "watchlist", "retired"}

Idle == [at |-> "idle", asset |-> NoAsset, new |-> {}, next |-> "candidate"]

MemoryTypeOK ==
  /\ EvolutionTypeOK
  /\ asset \in [Assets -> AssetStates \cup {"absent"}]
  /\ outcomes \in [Assets -> SUBSET runs]
  /\ writer \in [Writers -> [at : {"idle", "inserted", "derived", "updated"},
                             asset : Assets \cup {NoAsset}, new : SUBSET runs,
                             next : AssetStates]]
  /\ overlapped \subseteq Assets

MemoryInit ==
  /\ asset = [a \in Assets |-> "absent"]
  /\ outcomes = [a \in Assets |-> {}]
  /\ writer = [w \in Writers |-> Idle]
  /\ overlapped = {}

-----------------------------------------------------------------------------
(* response_replay_outcome                                                 *)
Outcome(r) ==
  IF r.safety < 90 THEN "regression"
  ELSE IF r.primary < 80 \/ r.calibration < 80 THEN "failure"
  ELSE "success"

WithOutcome(H, kind) == {r \in H : Outcome(r) = kind}

(* Deliberate mistake: three outcomes of any kind promote.                *)
NextCountingAll(H) ==
  IF Cardinality(WithOutcome(H, "regression")) >= 2 THEN "retired"
  ELSE IF Cardinality(H) >= 3 THEN "promoted"
  ELSE IF WithOutcome(H, "success") # H THEN "watchlist"
  ELSE "candidate"

(* next_asset_state of a history of outcomes.                              *)
NextAssetState(H) ==
  LET successful == WithOutcome(H, "success") IN
  IF Cardinality(WithOutcome(H, "regression")) >= 2 THEN "retired"
  ELSE IF /\ Cardinality(successful) >= 3
          /\ \A r \in successful : r.safety >= 90
          /\ MapThenSumSet(LAMBDA r : r.primary, successful) >= 80 * Cardinality(successful)
       THEN "promoted"
  ELSE IF successful # H THEN "watchlist"
  ELSE "candidate"

(* Deliberate mistake: the state is derived from the outcomes of this      *)
(* transaction alone.                                                      *)
DeriveFromNew(w) ==
  /\ writer[w].at = "inserted"
  /\ writer' = [writer EXCEPT ![w].at = "derived", ![w].next = NextAssetState(writer[w].new)]
  /\ UNCHANGED <<evolutionVars, asset, outcomes, overlapped>>

-----------------------------------------------------------------------------
(* persist_solution_asset: an object in any state is inserted; the state   *)
(* of an asset that exists is kept.                                        *)
RegisterAsset(a, s) ==
  /\ asset' = [asset EXCEPT ![a] = IF @ = "absent" THEN s ELSE @]
  /\ UNCHANGED <<evolutionVars, outcomes, writer, overlapped>>

(* persist_solution_outcomes, statement by statement.  The inserts of one  *)
(* call are one step: nobody sees them before the commit.  An insert waits *)
(* for an open transaction that inserted the same key, and does nothing    *)
(* when the outcome is already there.                                      *)
InsertOutcomes(w, a, R) ==
  /\ writer[w].at = "idle"
  /\ asset[a] # "absent"
  /\ \A v \in Writers : writer[v].asset = a => R \cap writer[v].new = {}
  /\ writer' = [writer EXCEPT ![w] = [at |-> "inserted", asset |-> a,
                                      new |-> R \ outcomes[a], next |-> "candidate"]]
  /\ overlapped' = IF \E v \in Writers : writer[v].asset = a
                   THEN overlapped \cup {a} ELSE overlapped
  /\ UNCHANGED <<evolutionVars, asset, outcomes>>

(* next_asset_state raises on an empty history.                            *)
DeriveState(w) ==
  LET history == outcomes[writer[w].asset] \cup writer[w].new IN
  /\ writer[w].at = "inserted"
  /\ history # {}
  /\ writer' = [writer EXCEPT ![w].at = "derived", ![w].next = NextAssetState(history)]
  /\ UNCHANGED <<evolutionVars, asset, outcomes, overlapped>>

(* The update waits for the lock of the asset's row.                       *)
UpdateAsset(w) ==
  /\ writer[w].at = "derived"
  /\ \A v \in Writers : writer[v].asset = writer[w].asset => writer[v].at # "updated"
  /\ writer' = [writer EXCEPT ![w].at = "updated"]
  /\ UNCHANGED <<evolutionVars, asset, outcomes, overlapped>>

Commit(w) ==
  /\ writer[w].at = "updated"
  /\ asset' = [asset EXCEPT ![writer[w].asset] = writer[w].next]
  /\ outcomes' = [outcomes EXCEPT ![writer[w].asset] = @ \cup writer[w].new]
  /\ writer' = [writer EXCEPT ![w] = Idle]
  /\ UNCHANGED <<evolutionVars, overlapped>>

(* The script dies or a statement fails.                                   *)
Rollback(w) ==
  /\ writer[w].at # "idle"
  /\ writer' = [writer EXCEPT ![w] = Idle]
  /\ UNCHANGED <<evolutionVars, asset, outcomes, overlapped>>

StorageInit == EvolutionInit /\ MemoryInit

MemoryNext ==
  \/ \E a \in Assets, s \in AssetStates : RegisterAsset(a, s)
  \/ \E w \in Writers :
       \/ \E a \in Assets, R \in SUBSET runs : InsertOutcomes(w, a, R)
       \/ DeriveState(w) \/ UpdateAsset(w) \/ Commit(w) \/ Rollback(w)

StorageNext == (EvolutionNext /\ UNCHANGED memoryVars) \/ MemoryNext

StorageSpec == StorageInit /\ [][StorageNext]_storageVars

-----------------------------------------------------------------------------
(* "Store outcomes and derive state from the complete persisted history"   *)
(* (persist_solution_outcomes).                                            *)
Follows(a) == outcomes[a] # {} => asset[a] = NextAssetState(outcomes[a])

StateFollowsHistory == \A a \in Assets : Follows(a)

(* It does for every asset on which no two transactions ever overlapped,   *)
(* whatever transactions fail half way.                                    *)
SerialStateFollowsHistory == \A a \in Assets \ overlapped : Follows(a)

(* "Promote only repeatedly successful, independently evaluated assets"    *)
(* (next_asset_state): even when transactions overlap, an asset with       *)
(* outcomes is never promoted before three successes are committed.        *)
PromotedHasSuccesses ==
  \A a \in Assets :
    asset[a] = "promoted" /\ outcomes[a] # {} =>
      Cardinality(WithOutcome(outcomes[a], "success")) >= 3
=============================================================================
