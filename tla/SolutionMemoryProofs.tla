------------------------ MODULE SolutionMemoryProofs ------------------------
(***************************************************************************)
(* Proofs about the evaluator tables and the solution memory, for any      *)
(* number of versions, runs, assets and concurrent transactions.           *)
(***************************************************************************)
EXTENDS SolutionMemory, FiniteSetTheorems, TLAPS

Transactions ==
  [at : {"idle", "inserted", "derived", "updated"},
   asset : Assets \cup {NoAsset}, new : SUBSET Runs, next : AssetStates]

(* The facts the other invariants rest on.                                 *)
Shape ==
  /\ state \in [Versions -> VersionStates \cup {"absent"}]
  /\ runs \subseteq Runs
  /\ decisions \in [Versions -> Seq({"shadow", "promoted", "reverted"})]
  /\ asset \in [Assets -> AssetStates \cup {"absent"}]
  /\ outcomes \in [Assets -> SUBSET Runs]
  /\ writer \in [Writers -> Transactions]
  /\ overlapped \subseteq Assets

(* next_asset_state returns a state the table knows.                       *)
LEMMA NextIsState == \A H : NextAssetState(H) \in AssetStates
  BY DEF NextAssetState, AssetStates

(* decide_evaluator_transition returns a state the table knows.            *)
LEMMA VerdictIsState ==
  ASSUME NEW b, NEW c, NEW base, NEW cand
  PROVE  Verdict(b, c, base, cand) \in {"shadow", "promoted", "reverted"}
  BY DEF Verdict

(* What DeriveState writes.                                                *)
LEMMA DerivedWriter ==
  ASSUME Shape, NEW w \in Writers, DeriveState(w)
  PROVE  /\ writer[w].at = "inserted" /\ writer'[w].at = "derived"
         /\ writer'[w].next = NextAssetState(outcomes[writer[w].asset] \cup writer[w].new)
         /\ writer'[w].asset = writer[w].asset /\ writer'[w].new = writer[w].new
         /\ \A v \in Writers \ {w} : writer'[v] = writer[v]
         /\ writer' \in [Writers -> Transactions]
<1> DEFINE d == NextAssetState(outcomes[writer[w].asset] \cup writer[w].new)
           old == writer[w]
           new == [old EXCEPT !.at = "derived", !.next = d]
<1>1. d \in AssetStates
  BY NextIsState
<1>2. writer[w].at = "inserted" /\ writer' = [writer EXCEPT ![w].at = "derived", ![w].next = d]
  BY DEF DeriveState
<1>3. writer \in [Writers -> Transactions] /\ old \in Transactions
  BY DEF Shape
<1> HIDE DEF d, old
<1>4. new \in Transactions /\ new.at = "derived" /\ new.next = d /\ new.asset = old.asset /\ new.new = old.new
  BY <1>1, <1>3 DEF Transactions
<1>5. writer' = [writer EXCEPT ![w] = new]
  BY <1>2 DEF old
<1> HIDE DEF new
<1>6. writer'[w] = new /\ (\A v \in Writers \ {w} : writer'[v] = writer[v]) /\ writer' \in [Writers -> Transactions]
  BY <1>3, <1>4, <1>5
<1> QED
  BY <1>2, <1>4, <1>6 DEF d, old

LEMMA ShapeInit == StorageInit => Shape
  BY DEF StorageInit, EvolutionInit, MemoryInit, Shape, Transactions, Idle, AssetStates, VersionStates

LEMMA ShapeNext == Shape /\ [StorageNext]_storageVars => Shape'
<1> SUFFICES ASSUME Shape, [StorageNext]_storageVars PROVE Shape'
  OBVIOUS
<1>1. CASE UNCHANGED storageVars
  BY <1>1 DEF storageVars, evolutionVars, memoryVars, Shape
<1>2. ASSUME NEW v \in Versions, NEW s \in VersionStates, RegisterVersion(v, s),
             UNCHANGED memoryVars
      PROVE  Shape'
  BY <1>2 DEF RegisterVersion, memoryVars, Shape
<1>3. ASSUME NEW r \in Runs, PersistRun(r), UNCHANGED memoryVars PROVE Shape'
  BY <1>3 DEF PersistRun, memoryVars, Shape
<1>4. ASSUME NEW b \in Versions, NEW c \in Versions, NEW base \in Runs, NEW cand \in Runs,
             PersistDecision(b, c, base, cand), UNCHANGED memoryVars
      PROVE  Shape'
  <2> DEFINE verdict == Verdict(b, c, base, cand)
  <2>1. verdict \in {"shadow", "promoted", "reverted"}
    BY VerdictIsState
  <2>2. /\ state' = [state EXCEPT ![c] = verdict]
        /\ decisions' = [decisions EXCEPT ![c] = Append(@, verdict)]
        /\ UNCHANGED runs
    BY <1>4 DEF PersistDecision
  <2> HIDE DEF verdict
  <2>3. state' \in [Versions -> VersionStates \cup {"absent"}]
    BY <2>1, <2>2 DEF Shape, VersionStates
  <2>4. decisions' \in [Versions -> Seq({"shadow", "promoted", "reverted"})]
    BY <2>1, <2>2 DEF Shape
  <2> QED
    BY <1>4, <2>2, <2>3, <2>4 DEF memoryVars, Shape
<1>5. ASSUME NEW a \in Assets, NEW s \in AssetStates, RegisterAsset(a, s) PROVE Shape'
  BY <1>5 DEF RegisterAsset, evolutionVars, Shape, AssetStates
<1>6. ASSUME NEW w \in Writers, NEW a \in Assets, NEW R \in SUBSET runs, InsertOutcomes(w, a, R)
      PROVE  Shape'
  BY <1>6 DEF InsertOutcomes, evolutionVars, Shape, Transactions, AssetStates
<1>7. ASSUME NEW w \in Writers, DeriveState(w) PROVE Shape'
  BY <1>7, DerivedWriter DEF DeriveState, evolutionVars, Shape
<1>8. ASSUME NEW w \in Writers, UpdateAsset(w) PROVE Shape'
  BY <1>8 DEF UpdateAsset, evolutionVars, Shape, Transactions
<1>9. ASSUME NEW w \in Writers, Commit(w) PROVE Shape'
  BY <1>9 DEF Commit, evolutionVars, Shape, Transactions, Idle, AssetStates
<1>10. ASSUME NEW w \in Writers, Rollback(w) PROVE Shape'
  BY <1>10 DEF Rollback, evolutionVars, Shape, Transactions, Idle, AssetStates
<1> QED
  BY <1>1, <1>2, <1>3, <1>4, <1>5, <1>6, <1>7, <1>8, <1>9, <1>10
  DEF StorageNext, EvolutionNext, MemoryNext

(* Transactions on assets leave the tables of evaluators alone.            *)
LEMMA StepCases ==
  ASSUME [StorageNext]_storageVars
  PROVE  \/ UNCHANGED evolutionVars
         \/ \E v \in Versions, s \in VersionStates : RegisterVersion(v, s)
         \/ \E r \in Runs : PersistRun(r)
         \/ \E b, c \in Versions, base, cand \in Runs : PersistDecision(b, c, base, cand)
  BY DEF StorageNext, EvolutionNext, MemoryNext, storageVars,
         RegisterAsset, InsertOutcomes, DeriveState, UpdateAsset, Commit, Rollback

-----------------------------------------------------------------------------
(* As long as no two transactions overlap on an asset, the one that is     *)
(* open has derived its state from all there is, and nothing can be        *)
(* committed between its reading and its commit.                           *)
SerialInv ==
  /\ \A w \in Writers : writer[w].at = "idle" <=> writer[w].asset = NoAsset
  /\ \A v, w \in Writers :
       writer[v].asset = writer[w].asset /\ writer[v].asset \in Assets \ overlapped => v = w
  /\ \A w \in Writers :
       writer[w].at \in {"derived", "updated"} /\ writer[w].asset \in Assets \ overlapped =>
         writer[w].next = NextAssetState(outcomes[writer[w].asset] \cup writer[w].new)
  /\ SerialStateFollowsHistory

LEMMA SerialInit == StorageInit => SerialInv
  BY MemoryAssumption
  DEF StorageInit, MemoryInit, SerialInv, SerialStateFollowsHistory, Follows, Idle

LEMMA SerialNext == Shape /\ SerialInv /\ [StorageNext]_storageVars => SerialInv'
<1> SUFFICES ASSUME Shape, SerialInv, [StorageNext]_storageVars PROVE SerialInv'
  OBVIOUS
<1> USE MemoryAssumption
<1>1. CASE UNCHANGED memoryVars
  BY <1>1 DEF memoryVars, SerialInv, SerialStateFollowsHistory, Follows
<1>2. ASSUME NEW a \in Assets, NEW s \in AssetStates, RegisterAsset(a, s) PROVE SerialInv'
  <2>1. \A c \in Assets \ overlapped : outcomes[c] # {} => asset'[c] = asset[c]
    <3> TAKE c \in Assets \ overlapped
    <3> HAVE outcomes[c] # {}
    <3>1. asset[c] \in AssetStates
      BY NextIsState DEF SerialInv, SerialStateFollowsHistory, Follows
    <3>2. asset[c] # "absent"
      BY <3>1 DEF AssetStates
    <3> QED
      BY <1>2, <3>2 DEF RegisterAsset, Shape
  <2> QED
    BY <1>2, <2>1 DEF RegisterAsset, SerialInv, SerialStateFollowsHistory, Follows
<1>3. ASSUME NEW w \in Writers, NEW a \in Assets, NEW R \in SUBSET runs, InsertOutcomes(w, a, R)
      PROVE  SerialInv'
  <2>1. /\ writer[w].at = "idle"
        /\ writer' = [writer EXCEPT ![w] = [at |-> "inserted", asset |-> a,
                                           new |-> R \ outcomes[a], next |-> "candidate"]]
        /\ UNCHANGED <<asset, outcomes>>
    BY <1>3 DEF InsertOutcomes
  <2>2. /\ writer'[w].at = "inserted" /\ writer'[w].asset = a
        /\ \A v \in Writers \ {w} : writer'[v] = writer[v]
    BY <2>1 DEF Shape
  <2>3. overlapped \subseteq overlapped'
    BY <1>3 DEF InsertOutcomes
  <2>4. (\E v \in Writers : writer[v].asset = a) => a \in overlapped'
    BY <1>3 DEF InsertOutcomes
  <2>5. \A v \in Writers : writer'[v].at = "idle" <=> writer'[v].asset = NoAsset
    BY <2>2 DEF SerialInv
  <2>6. \A u, v \in Writers :
          writer'[u].asset = writer'[v].asset /\ writer'[u].asset \in Assets \ overlapped' => u = v
    BY <2>2, <2>3, <2>4 DEF SerialInv
  <2>7. \A v \in Writers :
          writer'[v].at \in {"derived", "updated"} /\ writer'[v].asset \in Assets \ overlapped' =>
            writer'[v].next = NextAssetState(outcomes'[writer'[v].asset] \cup writer'[v].new)
    BY <2>1, <2>2, <2>3 DEF SerialInv
  <2>8. SerialStateFollowsHistory'
    BY <2>1, <2>3 DEF SerialInv, SerialStateFollowsHistory, Follows
  <2> QED
    BY <2>5, <2>6, <2>7, <2>8 DEF SerialInv
<1>4. ASSUME NEW w \in Writers, DeriveState(w) PROVE SerialInv'
  <2>1. /\ writer[w].at = "inserted" /\ writer[w].asset = writer'[w].asset
        /\ UNCHANGED <<asset, outcomes, overlapped>>
    BY <1>4, DerivedWriter DEF DeriveState
  <2>2. /\ writer'[w].at = "derived"
        /\ writer'[w].next = NextAssetState(outcomes[writer'[w].asset] \cup writer'[w].new)
        /\ writer'[w].new = writer[w].new
        /\ \A v \in Writers \ {w} : writer'[v] = writer[v]
    BY <1>4, DerivedWriter
  <2>3. \A v \in Writers :
          writer'[v].at \in {"derived", "updated"} /\ writer'[v].asset \in Assets \ overlapped' =>
            writer'[v].next = NextAssetState(outcomes'[writer'[v].asset] \cup writer'[v].new)
    BY <2>1, <2>2 DEF SerialInv
  <2>4. \A v \in Writers : writer'[v].at = "idle" <=> writer'[v].asset = NoAsset
    <3>1. writer[w].asset # NoAsset
      BY <2>1 DEF SerialInv
    <3> QED
      BY <2>1, <2>2, <3>1 DEF SerialInv
  <2>5. \A u, v \in Writers :
          writer'[u].asset = writer'[v].asset /\ writer'[u].asset \in Assets \ overlapped' => u = v
    <3>1. \A v \in Writers : writer'[v].asset = writer[v].asset
      BY <2>1, <2>2
    <3> QED
      BY <2>1, <3>1 DEF SerialInv
  <2>6. SerialStateFollowsHistory'
    BY <2>1 DEF SerialInv, SerialStateFollowsHistory, Follows
  <2> QED
    BY <2>3, <2>4, <2>5, <2>6 DEF SerialInv
<1>5. ASSUME NEW w \in Writers, UpdateAsset(w) PROVE SerialInv'
  <2>1. /\ writer[w].at = "derived"
        /\ writer' = [writer EXCEPT ![w].at = "updated"]
        /\ UNCHANGED <<asset, outcomes, overlapped>>
    BY <1>5 DEF UpdateAsset
  <2>2. /\ writer'[w].at = "updated" /\ writer'[w].next = writer[w].next
        /\ writer'[w].asset = writer[w].asset /\ writer'[w].new = writer[w].new
        /\ \A v \in Writers \ {w} : writer'[v] = writer[v]
    BY <2>1 DEF Shape
  <2> QED
    BY <2>1, <2>2 DEF SerialInv, SerialStateFollowsHistory, Follows
<1>6. ASSUME NEW w \in Writers, Commit(w) PROVE SerialInv'
  <2> DEFINE a == writer[w].asset
  <2>1. /\ writer[w].at = "updated"
        /\ asset' = [asset EXCEPT ![a] = writer[w].next]
        /\ outcomes' = [outcomes EXCEPT ![a] = @ \cup writer[w].new]
        /\ writer' = [writer EXCEPT ![w] = Idle]
        /\ UNCHANGED overlapped
    BY <1>6 DEF Commit
  <2>2. a \in Assets
    BY <2>1 DEF Shape, Transactions, SerialInv
  <2>3. /\ writer'[w].at = "idle" /\ writer'[w].asset = NoAsset
        /\ \A v \in Writers \ {w} : writer'[v] = writer[v]
    BY <2>1 DEF Shape, Idle
  <2>4. /\ asset'[a] = writer[w].next
        /\ outcomes'[a] = outcomes[a] \cup writer[w].new
        /\ \A c \in Assets \ {a} : asset'[c] = asset[c] /\ outcomes'[c] = outcomes[c]
    BY <2>1, <2>2 DEF Shape
  <2>5. a \notin overlapped => asset'[a] = NextAssetState(outcomes'[a])
    BY <2>1, <2>2, <2>4 DEF SerialInv
  <2>6. SerialStateFollowsHistory'
    BY <2>1, <2>4, <2>5 DEF SerialInv, SerialStateFollowsHistory, Follows
  <2>7. \A v \in Writers \ {w} : writer[v].asset = a => a \in overlapped
    BY <2>2 DEF SerialInv
  <2>8. \A v \in Writers :
          writer'[v].at \in {"derived", "updated"} /\ writer'[v].asset \in Assets \ overlapped' =>
            writer'[v].next = NextAssetState(outcomes'[writer'[v].asset] \cup writer'[v].new)
    BY <2>1, <2>3, <2>4, <2>7 DEF SerialInv
  <2>9. /\ \A v \in Writers : writer'[v].at = "idle" <=> writer'[v].asset = NoAsset
        /\ \A u, v \in Writers :
             writer'[u].asset = writer'[v].asset /\ writer'[u].asset \in Assets \ overlapped' => u = v
    BY <2>1, <2>3 DEF SerialInv
  <2> QED
    BY <2>6, <2>8, <2>9 DEF SerialInv
<1>7. ASSUME NEW w \in Writers, Rollback(w) PROVE SerialInv'
  <2>1. /\ writer' = [writer EXCEPT ![w] = Idle]
        /\ UNCHANGED <<asset, outcomes, overlapped>>
    BY <1>7 DEF Rollback
  <2>2. /\ writer'[w].at = "idle" /\ writer'[w].asset = NoAsset
        /\ \A v \in Writers \ {w} : writer'[v] = writer[v]
    BY <2>1 DEF Shape, Idle
  <2> QED
    BY <2>1, <2>2 DEF SerialInv, SerialStateFollowsHistory, Follows
<1>8. CASE UNCHANGED storageVars
  BY <1>1, <1>8 DEF storageVars
<1> QED
  BY <1>1, <1>2, <1>3, <1>4, <1>5, <1>6, <1>7, <1>8 DEF StorageNext, MemoryNext

(* An asset on which no two transactions overlapped stands where its       *)
(* complete history puts it (persist_solution_outcomes), for any number of *)
(* connections, assets and rolled back transactions.                       *)
THEOREM SerialHistoryIsFollowed == StorageSpec => []SerialStateFollowsHistory
<1>1. Shape /\ SerialInv /\ [StorageNext]_storageVars => (Shape /\ SerialInv)'
  BY ShapeNext, SerialNext
<1>2. SerialInv => SerialStateFollowsHistory
  BY DEF SerialInv
<1> QED
  BY ShapeInit, SerialInit, <1>1, <1>2, PTL DEF StorageSpec

-----------------------------------------------------------------------------
(* Enough committed successes for a promotion.                             *)
Proven(H) == Cardinality(WithOutcome(H, "success")) >= 3

(* More outcomes never take the grounds of a promotion away.               *)
LEMMA ProvenGrows ==
  ASSUME NEW G, NEW H, IsFiniteSet(H), G \subseteq H, Proven(G)
  PROVE  Proven(H)
<1> DEFINE S == WithOutcome(G, "success")
           T == WithOutcome(H, "success")
<1>1. S \subseteq T /\ T \subseteq H
  BY DEF WithOutcome
<1>2. Cardinality(S) >= 3
  BY DEF Proven
<1> HIDE DEF S, T
<1>3. IsFiniteSet(T)
  BY <1>1, FS_Subset
<1>4. IsFiniteSet(S) /\ Cardinality(S) <= Cardinality(T)
  BY <1>1, <1>3, FS_Subset
<1>5. Cardinality(S) \in Nat /\ Cardinality(T) \in Nat
  BY <1>3, <1>4, FS_CardinalityType
<1>6. Cardinality(T) >= 3
  BY <1>2, <1>4, <1>5
<1> QED
  BY <1>6 DEF Proven, T

(* next_asset_state promotes on three successes and on no fewer.           *)
LEMMA PromotionIsProven ==
  ASSUME NEW H, NextAssetState(H) = "promoted"
  PROVE  Proven(H)
BY Zenon DEF NextAssetState, Proven

(* A transaction that is about to promote has derived that from committed  *)
(* outcomes and its own: whatever others commit or roll back, these are in *)
(* the table when it commits.                                              *)
SuccessInv ==
  /\ IsFiniteSet(runs)
  /\ \A a \in Assets : outcomes[a] # {} => asset[a] # "absent"
  /\ \A a \in Assets : IsFiniteSet(outcomes[a])
  /\ \A w \in Writers : IsFiniteSet(writer[w].new)
  /\ \A w \in Writers : writer[w].at # "idle" => writer[w].asset \in Assets
  /\ \A w \in Writers :
       writer[w].at \in {"derived", "updated"} /\ writer[w].next = "promoted" =>
         Proven(outcomes[writer[w].asset] \cup writer[w].new)
  /\ PromotedHasSuccesses

LEMMA SuccessInit == StorageInit => SuccessInv
<1> HAVE StorageInit
<1>1. /\ runs = {}
      /\ \A a \in Assets : outcomes[a] = {} /\ asset[a] = "absent"
      /\ \A w \in Writers : writer[w].at = "idle" /\ writer[w].new = {}
  BY DEF StorageInit, EvolutionInit, MemoryInit, Idle
<1>2. PromotedHasSuccesses
  BY <1>1 DEF PromotedHasSuccesses
<1> QED
  BY <1>1, <1>2, FS_EmptySet DEF SuccessInv

LEMMA SuccessNext == Shape /\ SuccessInv /\ [StorageNext]_storageVars => SuccessInv'
<1> SUFFICES ASSUME Shape, SuccessInv, [StorageNext]_storageVars PROVE SuccessInv'
  OBVIOUS
<1> USE DEF Proven
<1>0. IsFiniteSet(runs')
  <2>1. ASSUME NEW r \in Runs, PersistRun(r) PROVE IsFiniteSet(runs')
    BY <2>1, FS_AddElement DEF PersistRun, SuccessInv
  <2>2. CASE UNCHANGED runs
    BY <2>2 DEF SuccessInv
  <2>3. UNCHANGED runs \/ \E r \in Runs : PersistRun(r)
    BY StepCases DEF evolutionVars, RegisterVersion, PersistDecision
  <2> QED
    BY <2>1, <2>2, <2>3
<1>1. CASE UNCHANGED memoryVars
  BY <1>0, <1>1 DEF memoryVars, SuccessInv, PromotedHasSuccesses
<1>2. ASSUME NEW a \in Assets, NEW s \in AssetStates, RegisterAsset(a, s) PROVE SuccessInv'
  <2>1. \A c \in Assets : outcomes[c] # {} => asset'[c] = asset[c]
    BY <1>2 DEF RegisterAsset, Shape, SuccessInv
  <2> QED
    BY <1>0, <1>2, <2>1 DEF RegisterAsset, SuccessInv, PromotedHasSuccesses
<1>3. ASSUME NEW w \in Writers, NEW a \in Assets, NEW R \in SUBSET runs, InsertOutcomes(w, a, R)
      PROVE  SuccessInv'
  <2> DEFINE fresh == R \ outcomes[a]
  <2>1. IsFiniteSet(fresh)
    BY FS_Subset DEF SuccessInv
  <2>2. /\ writer' = [writer EXCEPT ![w] = [at |-> "inserted", asset |-> a,
                                            new |-> fresh, next |-> "candidate"]]
        /\ UNCHANGED <<asset, outcomes>>
    BY <1>3 DEF InsertOutcomes
  <2> HIDE DEF fresh
  <2>3. /\ writer'[w] = [at |-> "inserted", asset |-> a, new |-> fresh, next |-> "candidate"]
        /\ \A v \in Writers \ {w} : writer'[v] = writer[v]
    BY <2>2 DEF Shape
  <2> QED
    BY <1>0, <2>1, <2>2, <2>3 DEF SuccessInv, PromotedHasSuccesses
<1>4. ASSUME NEW w \in Writers, DeriveState(w) PROVE SuccessInv'
  <2>1. /\ writer[w].at = "inserted" /\ writer[w].asset = writer'[w].asset
        /\ UNCHANGED <<asset, outcomes>>
    BY <1>4, DerivedWriter DEF DeriveState
  <2>2. /\ writer'[w].at = "derived"
        /\ writer'[w].new = writer[w].new
        /\ \A v \in Writers \ {w} : writer'[v] = writer[v]
    BY <1>4, DerivedWriter
  <2>3. writer'[w].next = "promoted" => Proven(outcomes[writer'[w].asset] \cup writer'[w].new)
    BY <1>4, DerivedWriter, PromotionIsProven
  <2> QED
    BY <1>0, <2>1, <2>2, <2>3 DEF SuccessInv, PromotedHasSuccesses
<1>5. ASSUME NEW w \in Writers, UpdateAsset(w) PROVE SuccessInv'
  <2>1. /\ writer[w].at = "derived"
        /\ writer' = [writer EXCEPT ![w].at = "updated"]
        /\ UNCHANGED <<asset, outcomes>>
    BY <1>5 DEF UpdateAsset
  <2>2. /\ writer'[w].at = "updated" /\ writer'[w].next = writer[w].next
        /\ writer'[w].asset = writer[w].asset /\ writer'[w].new = writer[w].new
        /\ \A v \in Writers \ {w} : writer'[v] = writer[v]
    BY <2>1 DEF Shape
  <2> QED
    BY <1>0, <2>1, <2>2 DEF SuccessInv, PromotedHasSuccesses
<1>6. ASSUME NEW w \in Writers, Commit(w) PROVE SuccessInv'
  <2> DEFINE a == writer[w].asset
             complete == outcomes[a] \cup writer[w].new
  <2>1. /\ writer[w].at = "updated"
        /\ asset' = [asset EXCEPT ![a] = writer[w].next]
        /\ outcomes' = [outcomes EXCEPT ![a] = complete]
        /\ writer' = [writer EXCEPT ![w] = Idle]
    BY <1>6 DEF Commit
  <2>2. a \in Assets /\ IsFiniteSet(complete)
    BY <2>1, FS_Union DEF SuccessInv
  <2>3. /\ asset'[a] = writer[w].next /\ outcomes'[a] = complete
        /\ \A c \in Assets \ {a} : asset'[c] = asset[c] /\ outcomes'[c] = outcomes[c]
    BY <2>1, <2>2 DEF Shape
  <2>4. /\ writer'[w] = Idle
        /\ \A v \in Writers \ {w} : writer'[v] = writer[v]
    BY <2>1 DEF Shape
  <2>5. asset'[a] = "promoted" => Proven(complete)
    BY <2>1, <2>3 DEF SuccessInv
  <2>6. PromotedHasSuccesses'
    BY <2>2, <2>3, <2>5 DEF SuccessInv, PromotedHasSuccesses
  <2>7. \A c \in Assets : IsFiniteSet(outcomes'[c]) /\ outcomes[c] \subseteq outcomes'[c]
    BY <2>2, <2>3 DEF SuccessInv
  <2>8. ASSUME NEW v \in Writers, writer'[v].at \in {"derived", "updated"},
               writer'[v].next = "promoted"
        PROVE  Proven(outcomes'[writer'[v].asset] \cup writer'[v].new)
    <3>1. v # w /\ writer'[v] = writer[v]
      BY <2>4, <2>8 DEF Idle
    <3> DEFINE G == outcomes[writer[v].asset] \cup writer[v].new
               H == outcomes'[writer[v].asset] \cup writer[v].new
    <3>2. writer[v].asset \in Assets /\ IsFiniteSet(writer[v].new) /\ Proven(G)
      BY <2>8, <3>1 DEF SuccessInv
    <3>3. G \subseteq H /\ IsFiniteSet(H)
      BY <2>7, <3>2, FS_Union
    <3> HIDE DEF Proven
    <3>4. Proven(H)
      BY <3>2, <3>3, ProvenGrows
    <3> QED
      BY <3>1, <3>4
  <2>9. \A v \in Writers : /\ IsFiniteSet(writer'[v].new)
                           /\ writer'[v].at # "idle" => writer'[v].asset \in Assets
    <3> SUFFICES ASSUME NEW v \in Writers
                 PROVE  /\ IsFiniteSet(writer'[v].new)
                        /\ writer'[v].at # "idle" => writer'[v].asset \in Assets
      OBVIOUS
    <3>1. CASE v = w
      BY <2>4, <3>1, FS_EmptySet DEF Idle
    <3>2. CASE v # w
      BY <2>4, <3>2 DEF SuccessInv
    <3> QED
      BY <3>1, <3>2
  <2>10. \A c \in Assets : outcomes'[c] # {} => asset'[c] # "absent"
    <3>1. writer[w].next # "absent"
      BY DEF Shape, Transactions, AssetStates
    <3> QED
      BY <2>3, <3>1 DEF SuccessInv
  <2> QED
    BY <1>0, <2>6, <2>7, <2>8, <2>9, <2>10 DEF SuccessInv
<1>7. ASSUME NEW w \in Writers, Rollback(w) PROVE SuccessInv'
  <2>1. /\ writer' = [writer EXCEPT ![w] = Idle]
        /\ UNCHANGED <<asset, outcomes>>
    BY <1>7 DEF Rollback
  <2>2. /\ writer'[w] = Idle
        /\ \A v \in Writers \ {w} : writer'[v] = writer[v]
    BY <2>1 DEF Shape
  <2> QED
    BY <1>0, <2>1, <2>2, FS_EmptySet DEF SuccessInv, PromotedHasSuccesses, Idle
<1>8. CASE UNCHANGED storageVars
  BY <1>1, <1>8 DEF storageVars
<1> QED
  BY <1>1, <1>2, <1>3, <1>4, <1>5, <1>6, <1>7, <1>8 DEF StorageNext, MemoryNext

(* However transactions overlap and whichever of them fail, an asset is    *)
(* promoted only with three successes committed (next_asset_state,         *)
(* persist_solution_outcomes).                                             *)
THEOREM PromotionsHaveSuccesses == StorageSpec => []PromotedHasSuccesses
<1>1. Shape /\ SuccessInv /\ [StorageNext]_storageVars => (Shape /\ SuccessInv)'
  BY ShapeNext, SuccessNext
<1>2. SuccessInv => PromotedHasSuccesses
  BY DEF SuccessInv
<1> QED
  BY ShapeInit, SuccessInit, <1>1, <1>2, PTL DEF StorageSpec

-----------------------------------------------------------------------------
(* A version that is promoted or reverted is neither registered in another *)
(* state nor decided on again.                                             *)
LEMMA VerdictStays ==
  ASSUME Shape, [StorageNext]_storageVars, NEW x \in Versions,
         state[x] \in {"promoted", "reverted"}
  PROVE  state'[x] = state[x]
<1>1. CASE UNCHANGED evolutionVars
  BY <1>1 DEF evolutionVars
<1>2. ASSUME NEW v \in Versions, NEW s \in VersionStates, RegisterVersion(v, s)
      PROVE  state'[x] = state[x]
  BY <1>2 DEF RegisterVersion, Shape
<1>3. ASSUME NEW r \in Runs, PersistRun(r) PROVE state'[x] = state[x]
  BY <1>3 DEF PersistRun
<1>4. ASSUME NEW b \in Versions, NEW c \in Versions, NEW base \in Runs, NEW cand \in Runs,
             PersistDecision(b, c, base, cand)
      PROVE  state'[x] = state[x]
  BY <1>4 DEF PersistDecision, Shape
<1> QED
  BY <1>1, <1>2, <1>3, <1>4, StepCases

(* The decision log explains the table.                                    *)
DecisionInv == StateIsLastDecision /\ PromotionIsEarned

LEMMA DecisionInit == StorageInit => DecisionInv
  BY DEF StorageInit, EvolutionInit, DecisionInv, StateIsLastDecision, PromotionIsEarned

LEMMA DecisionNext == Shape /\ DecisionInv /\ [StorageNext]_storageVars => DecisionInv'
<1> SUFFICES ASSUME Shape, DecisionInv, [StorageNext]_storageVars PROVE DecisionInv'
  OBVIOUS
<1>1. CASE UNCHANGED evolutionVars
  BY <1>1 DEF evolutionVars, DecisionInv, StateIsLastDecision, PromotionIsEarned
<1>2. ASSUME NEW v \in Versions, NEW s \in VersionStates, RegisterVersion(v, s)
      PROVE  DecisionInv'
  <2>1. /\ state[v] \in {"absent", s} /\ state' = [state EXCEPT ![v] = s]
        /\ UNCHANGED <<runs, decisions>>
    BY <1>2 DEF RegisterVersion
  <2>2. \A c \in Versions : decisions[c] # <<>> => state'[c] = state[c]
    <3> SUFFICES ASSUME NEW c \in Versions, decisions[c] # <<>> PROVE state'[c] = state[c]
      OBVIOUS
    <3>1. state[c] = decisions[c][Len(decisions[c])]
      BY DEF DecisionInv, StateIsLastDecision
    <3>2. decisions[c] \in Seq({"shadow", "promoted", "reverted"})
      BY DEF Shape
    <3>3. Len(decisions[c]) \in 1 .. Len(decisions[c])
      BY <3>2
    <3>4. state[c] # "absent"
      BY <3>1, <3>2, <3>3
    <3> QED
      BY <2>1, <3>4 DEF Shape
  <2> QED
    BY <2>1, <2>2 DEF DecisionInv, StateIsLastDecision, PromotionIsEarned
<1>3. ASSUME NEW r \in Runs, PersistRun(r) PROVE DecisionInv'
  BY <1>3 DEF PersistRun, DecisionInv, StateIsLastDecision, PromotionIsEarned
<1>4. ASSUME NEW b \in Versions, NEW c \in Versions, NEW base \in Runs, NEW cand \in Runs,
             PersistDecision(b, c, base, cand)
      PROVE  DecisionInv'
  <2> DEFINE verdict == Verdict(b, c, base, cand)
  <2>1. /\ Parent(c) = b
        /\ base.evaluator = b /\ cand.evaluator = c /\ {base, cand} \subseteq runs
        /\ state[c] \in {"proposed", "shadow"}
        /\ state' = [state EXCEPT ![c] = verdict]
        /\ decisions' = [decisions EXCEPT ![c] = Append(@, verdict)]
        /\ UNCHANGED runs
    BY <1>4 DEF PersistDecision
  <2>4. verdict = "promoted" =>
          /\ base.cohort = cand.cohort /\ base.cases >= 20 /\ cand.cases >= 20
          /\ cand.independent
          /\ cand.safety >= base.safety /\ cand.calibration >= base.calibration
          /\ cand.primary >= base.primary + 2
    <3> DEFINE independent == cand.independent
    <3>1. independent \in BOOLEAN
      BY EvolutionAssumption
    <3>2. verdict = "promoted" => independent
      BY Zenon DEF Verdict
    <3> HIDE DEF independent
    <3>3. verdict = "promoted" =>
            /\ base.cohort = cand.cohort
            /\ ~ (base.cases < 20 \/ cand.cases < 20)
            /\ ~ (cand.safety < base.safety \/ cand.primary < base.primary)
            /\ ~ (cand.primary < base.primary + 2)
            /\ ~ (cand.calibration < base.calibration)
      BY Zenon DEF Verdict, MinimumHoldoutCases, PrimaryImprovement
    <3>4. /\ base.cases \in Nat /\ cand.cases \in Nat
          /\ base.primary \in Nat /\ cand.primary \in Nat
          /\ base.safety \in Nat /\ cand.safety \in Nat
          /\ base.calibration \in Nat /\ cand.calibration \in Nat
      BY EvolutionAssumption
    <3> HIDE DEF verdict
    <3>5. verdict = "promoted" =>
            /\ base.cohort = cand.cohort /\ base.cases >= 20 /\ cand.cases >= 20
            /\ cand.safety >= base.safety /\ cand.calibration >= base.calibration
            /\ cand.primary >= base.primary + 2
      BY <3>3, <3>4
    <3> QED
      BY <3>2, <3>5, Zenon DEF independent
  <2>5. verdict \in {"shadow", "promoted", "reverted"}
    BY VerdictIsState
  <2> HIDE DEF verdict
  <2>7. PromotionIsEarned'
    <3> SUFFICES ASSUME NEW x \in Versions, state'[x] = "promoted", decisions'[x] # <<>>
                 PROVE  \E r, q \in runs :
                          /\ r.evaluator = Parent(x) /\ q.evaluator = x
                          /\ r.cohort = q.cohort /\ r.cases >= 20 /\ q.cases >= 20
                          /\ q.independent
                          /\ q.safety >= r.safety /\ q.calibration >= r.calibration
                          /\ q.primary >= r.primary + 2
      BY <2>1 DEF PromotionIsEarned
    <3>1. CASE x = c
      <4>1. verdict = "promoted"
        BY <2>1, <3>1 DEF Shape
      <4> QED
        BY <2>1, <2>4, <3>1, <4>1
    <3>2. CASE x # c
      <4>1. state[x] = "promoted" /\ decisions[x] # <<>>
        BY <2>1, <3>2 DEF Shape
      <4> QED
        BY <4>1 DEF DecisionInv, PromotionIsEarned
    <3> QED
      BY <3>1, <3>2
  <2>8. StateIsLastDecision'
    <3> SUFFICES ASSUME NEW x \in Versions
                 PROVE  /\ decisions'[x] # <<>> => state'[x] = decisions'[x][Len(decisions'[x])]
                        /\ \A i \in 1 .. Len(decisions'[x]) - 1 : decisions'[x][i] = "shadow"
      BY DEF StateIsLastDecision
    <3>1. CASE x # c
      BY <2>1, <3>1 DEF DecisionInv, StateIsLastDecision, Shape
    <3>2. CASE x = c
      <4> DEFINE log == decisions[c]
      <4>1. log \in Seq({"shadow", "promoted", "reverted"})
        BY DEF Shape
      <4>2. decisions'[c] = Append(log, verdict) /\ state'[c] = verdict
        BY <2>1 DEF Shape
      <4>3. \A i \in 1 .. Len(log) - 1 : log[i] = "shadow"
        BY DEF DecisionInv, StateIsLastDecision
      <4>4. log # <<>> => log[Len(log)] = "shadow"
        <5> HAVE log # <<>>
        <5>1. log[Len(log)] = state[c]
          BY DEF DecisionInv, StateIsLastDecision
        <5>2. Len(log) \in 1 .. Len(log)
          BY <4>1
        <5>3. log[Len(log)] \in {"shadow", "promoted", "reverted"}
          BY <4>1, <5>2
        <5> QED
          BY <2>1, <5>1, <5>3
      <4> HIDE DEF log
      <4>5. \A i \in 1 .. Len(log) : log[i] = "shadow"
        BY <4>1, <4>3, <4>4
      <4>6. /\ Len(Append(log, verdict)) = Len(log) + 1
            /\ \A i \in 1 .. Len(log) : Append(log, verdict)[i] = log[i]
            /\ Append(log, verdict)[Len(log) + 1] = verdict
        BY <2>5, <4>1
      <4>7. Len(log) \in Nat
        BY <4>1
      <4> QED
        BY <3>2, <4>2, <4>5, <4>6, <4>7
    <3> QED
      BY <3>1, <3>2
  <2> QED
    BY <2>7, <2>8 DEF DecisionInv
<1> QED
  BY <1>1, <1>2, <1>3, <1>4, StepCases

-----------------------------------------------------------------------------
(* No version is promoted by a decision but on two persisted runs that     *)
(* pass the gates, for every lineage of versions, whatever states scripts  *)
(* register them in (decide_evaluator_transition and                       *)
(* persist_evaluator_decision).                                            *)
THEOREM PromotionsAreEarned == StorageSpec => []PromotionIsEarned
<1>1. Shape /\ DecisionInv /\ [StorageNext]_storageVars => (Shape /\ DecisionInv)'
  BY ShapeNext, DecisionNext
<1>2. DecisionInv => PromotionIsEarned
  BY DEF DecisionInv
<1> QED
  BY ShapeInit, DecisionInit, <1>1, <1>2, PTL DEF StorageSpec

(* The row of a candidate stands where its last decision put it, and no    *)
(* decision follows a verdict (persist_evaluator_decision).                *)
THEOREM DecisionsExplainStates == StorageSpec => []StateIsLastDecision
<1>1. Shape /\ DecisionInv /\ [StorageNext]_storageVars => (Shape /\ DecisionInv)'
  BY ShapeNext, DecisionNext
<1>2. DecisionInv => StateIsLastDecision
  BY DEF DecisionInv
<1> QED
  BY ShapeInit, DecisionInit, <1>1, <1>2, PTL DEF StorageSpec

(* Neither a registration nor a decision changes a version that was        *)
(* promoted or reverted.                                                   *)
THEOREM VerdictsAreFinal == StorageSpec => VerdictIsFinal
<1>1. Shape /\ [StorageNext]_storageVars =>
        [\A v \in Versions : state[v] \in {"promoted", "reverted"} => state'[v] = state[v]
        ]_evolutionVars
  BY VerdictStays
<1> QED
  BY ShapeInit, ShapeNext, <1>1, PTL DEF StorageSpec, VerdictIsFinal
=============================================================================
