-------------------------- MODULE DashboardProofs --------------------------
(***************************************************************************)
(* The overshoot of a lane's daily budget, for any number of requests,     *)
(* threads and any limits.  OvershootBounded alone is not inductive: the   *)
(* handlers that have passed the count and not yet inserted must be        *)
(* counted with the rows, and there are at most Threads of them.           *)
(***************************************************************************)
EXTENDS Dashboard, FiniteSetTheorems, TLAPS

Counted(lane) == (recent \ Direct) \cap lane

Recording(lane) == {r \in lane : stage[r] = "record"}

ThreadsBounded == Cardinality(Running) <= Threads

CommittedBounded ==
  \A lane \in Lanes :
    Cardinality(Counted(lane)) + Cardinality(Recording(lane)) <= MaxTasksPerLane + Threads - 1

AdmissionInv == DashboardTypeOK /\ ThreadsBounded /\ CommittedBounded

-----------------------------------------------------------------------------
(* Every set counted here is a finite set of requests.                     *)
LEMMA FiniteSubset ==
  ASSUME NEW S \in SUBSET Requests
  PROVE  IsFiniteSet(S) /\ Cardinality(S) \in Nat
  BY DashboardAssumption, FS_Subset, FS_CardinalityType

(* The size of a set of requests never exceeds that of a larger one.       *)
LEMMA SmallerSubset ==
  ASSUME NEW S \in SUBSET Requests, NEW T \in SUBSET S
  PROVE  Cardinality(T) <= Cardinality(S)
  BY FiniteSubset, FS_Subset

(* The requests of a lane are requests, and each request has one lane.     *)
LEMMA LanesPartition ==
  /\ \A lane \in Lanes : lane \subseteq Requests
  /\ \A r \in Requests : Lane(r) \in Lanes /\ r \in Lane(r)
  /\ \A lane \in Lanes, r \in Requests : r \in lane => lane = Lane(r)
  BY DashboardAssumption DEF Lanes, Lane, Requests

(* create_task keeps DashboardTypeOK.                                      *)
LEMMA DashboardTypeStep ==
  ASSUME DashboardTypeOK, [DashboardNext]_dashboardVars
  PROVE  DashboardTypeOK'
<1>1. CASE UNCHANGED dashboardVars
  BY <1>1 DEF dashboardVars, DashboardTypeOK
<1>2. ASSUME NEW r \in Requests, Receive(r) PROVE DashboardTypeOK'
  BY <1>2 DEF Receive, DashboardTypeOK, Stages
<1>3. ASSUME NEW r \in Requests, CheckDepth(r) PROVE DashboardTypeOK'
  BY <1>3 DEF CheckDepth, DashboardTypeOK, Stages
<1>4. ASSUME NEW r \in Requests, CheckBudget(r) PROVE DashboardTypeOK'
  BY <1>4 DEF CheckBudget, DashboardTypeOK, Stages
<1>5. ASSUME NEW r \in Requests, Record(r) PROVE DashboardTypeOK'
  BY <1>5 DEF Record, DashboardTypeOK, Stages
<1>6. ASSUME NEW r \in Requests, Deliver(r) PROVE DashboardTypeOK'
  BY <1>6 DEF Deliver, DashboardTypeOK
<1>7. ASSUME NEW r \in Requests, PushDirect(r) PROVE DashboardTypeOK'
  BY <1>7 DEF PushDirect, DashboardTypeOK, Stages
<1>8. ASSUME NEW r \in Requests, Take(r) PROVE DashboardTypeOK'
  BY <1>8 DEF Take, DashboardTypeOK
<1>9. ASSUME NEW r \in Requests, DayPasses(r) PROVE DashboardTypeOK'
  BY <1>9 DEF DayPasses, DashboardTypeOK
<1> QED
  BY <1>1, <1>2, <1>3, <1>4, <1>5, <1>6, <1>7, <1>8, <1>9 DEF DashboardNext

(* A step that starts no handler starts none: at most Threads run.         *)
LEMMA ThreadsStep ==
  ASSUME AdmissionInv, [DashboardNext]_dashboardVars
  PROVE  ThreadsBounded'
<1> DashboardTypeOK /\ ThreadsBounded
  BY DEF AdmissionInv
<1> Running \in SUBSET Requests
  BY DEF Running
<1>1. ASSUME Running' \subseteq Running PROVE ThreadsBounded'
  <2>1. Cardinality(Running') <= Cardinality(Running)
    BY <1>1, SmallerSubset
  <2>2. Cardinality(Running') \in Nat /\ Cardinality(Running) \in Nat
    BY <1>1, FiniteSubset
  <2> QED
    BY <2>1, <2>2, DashboardAssumption DEF ThreadsBounded
<1>2. ASSUME NEW r \in Requests, Receive(r) PROVE ThreadsBounded'
  <2>1. Running' = Running \cup {r}
    BY <1>2 DEF Receive, Running, DashboardTypeOK
  <2>2. Cardinality(Running') <= Cardinality(Running) + 1
    BY <2>1, FiniteSubset, FS_AddElement
  <2>3. Cardinality(Running) < Threads
    BY <1>2 DEF Receive
  <2>4. Cardinality(Running') \in Nat /\ Cardinality(Running) \in Nat
    BY <2>1, FiniteSubset
  <2> QED
    BY <2>2, <2>3, <2>4, DashboardAssumption DEF ThreadsBounded
<1>3. ASSUME NEW r \in Requests, CheckDepth(r) PROVE Running' \subseteq Running
  BY <1>3 DEF CheckDepth, Running, DashboardTypeOK
<1>4. ASSUME NEW r \in Requests, CheckBudget(r) PROVE Running' \subseteq Running
  BY <1>4 DEF CheckBudget, Running, DashboardTypeOK
<1>5. ASSUME NEW r \in Requests, Record(r) PROVE Running' \subseteq Running
  BY <1>5 DEF Record, Running, DashboardTypeOK
<1>6. ASSUME NEW r \in Requests, PushDirect(r) PROVE Running' \subseteq Running
  BY <1>6 DEF PushDirect, Running, DashboardTypeOK
<1>7. ASSUME UNCHANGED stage PROVE Running' \subseteq Running
  BY <1>7 DEF Running
<1>8. ASSUME NEW r \in Requests, Deliver(r) \/ Take(r) \/ DayPasses(r)
      PROVE UNCHANGED stage
  BY <1>8 DEF Deliver, Take, DayPasses
<1>9. UNCHANGED dashboardVars => UNCHANGED stage
  BY DEF dashboardVars
<1> QED
  BY <1>1, <1>2, <1>3, <1>4, <1>5, <1>6, <1>7, <1>8, <1>9 DEF DashboardNext

(* Rows of a lane and handlers about to insert one.  Only CheckBudget adds *)
(* a handler, and it has just seen fewer rows than the budget.             *)
LEMMA CommittedStep ==
  ASSUME AdmissionInv, [DashboardNext]_dashboardVars
  PROVE  CommittedBounded'
<1> DashboardTypeOK /\ ThreadsBounded /\ CommittedBounded
  BY DEF AdmissionInv
<1> DashboardTypeOK' /\ ThreadsBounded'
  BY DashboardTypeStep, ThreadsStep
<1> SUFFICES ASSUME NEW lane \in Lanes
             PROVE  Cardinality(Counted(lane)') + Cardinality(Recording(lane)')
                      <= MaxTasksPerLane + Threads - 1
  BY DEF CommittedBounded
<1> lane \subseteq Requests
  BY LanesPartition
<1>a. /\ Counted(lane) \in SUBSET Requests /\ Recording(lane) \in SUBSET Requests
      /\ Counted(lane)' \in SUBSET Requests /\ Recording(lane)' \in SUBSET Requests
  BY DEF Counted, Recording, DashboardTypeOK
<1>b. /\ Cardinality(Counted(lane)) \in Nat /\ Cardinality(Recording(lane)) \in Nat
      /\ Cardinality(Counted(lane)') \in Nat /\ Cardinality(Recording(lane)') \in Nat
  BY <1>a, FiniteSubset
<1>c. Cardinality(Counted(lane)) + Cardinality(Recording(lane)) <= MaxTasksPerLane + Threads - 1
  BY DEF CommittedBounded
<1>0. ASSUME Counted(lane)' \subseteq Counted(lane), Recording(lane)' \subseteq Recording(lane)
      PROVE  Cardinality(Counted(lane)') + Cardinality(Recording(lane)')
               <= MaxTasksPerLane + Threads - 1
  <2>1. /\ Cardinality(Counted(lane)') <= Cardinality(Counted(lane))
        /\ Cardinality(Recording(lane)') <= Cardinality(Recording(lane))
    BY <1>0, <1>a, SmallerSubset
  <2> QED
    BY <2>1, <1>b, <1>c, DashboardAssumption
<1>1. ASSUME NEW r \in Requests, Receive(r) \/ CheckDepth(r) \/ PushDirect(r)
      PROVE  Counted(lane)' \subseteq Counted(lane) /\ Recording(lane)' \subseteq Recording(lane)
  BY <1>1 DEF Receive, CheckDepth, PushDirect, Counted, Recording, DashboardTypeOK
<1>2. ASSUME NEW r \in Requests, CheckBudget(r)
      PROVE  Cardinality(Counted(lane)') + Cardinality(Recording(lane)')
               <= MaxTasksPerLane + Threads - 1
  <2>1. Counted(lane)' = Counted(lane)
    BY <1>2 DEF CheckBudget, Counted
  <2>2. CASE Recording(lane)' \subseteq Recording(lane)
    BY <2>1, <2>2, <1>0
  <2>3. CASE ~ (Recording(lane)' \subseteq Recording(lane))
    <3>1. r \in lane /\ TasksOf(Lane(r)) < MaxTasksPerLane
      <4>1. PICK q \in lane : stage'[q] = "record" /\ stage[q] # "record"
        BY <2>3 DEF Recording
      <4>2. q = r
        BY <4>1, <1>2 DEF CheckBudget, DashboardTypeOK
      <4>3. ~ (TasksOf(Lane(r)) >= MaxTasksPerLane)
        BY <4>1, <4>2, <1>2 DEF CheckBudget, DashboardTypeOK
      <4>4. TasksOf(Lane(r)) \in Nat
        BY FiniteSubset DEF TasksOf, DashboardTypeOK
      <4> QED
        BY <4>1, <4>2, <4>3, <4>4, DashboardAssumption
    <3>2. Cardinality(Counted(lane)) <= TasksOf(lane)
      <4>1. Counted(lane) \in SUBSET (recent \cap lane) /\ recent \cap lane \in SUBSET Requests
        BY DEF Counted, DashboardTypeOK
      <4> QED
        BY <4>1, SmallerSubset DEF TasksOf
    <3>3. lane = Lane(r)
      BY <3>1, LanesPartition
    <3>4. Cardinality(Recording(lane)') <= Cardinality(Running')
      <4>1. Running' \in SUBSET Requests /\ Recording(lane)' \in SUBSET Running'
        BY DEF Running, Recording
      <4> QED
        BY <4>1, SmallerSubset
    <3>5. Cardinality(Running') \in Nat /\ TasksOf(lane) \in Nat
      <4>1. Running' \in SUBSET Requests /\ recent \cap lane \in SUBSET Requests
        BY DEF Running, DashboardTypeOK
      <4> QED
        BY <4>1, FiniteSubset DEF TasksOf
    <3> QED
      BY <2>1, <3>1, <3>2, <3>3, <3>4, <3>5, <1>b, DashboardAssumption DEF ThreadsBounded
  <2> QED
    BY <2>2, <2>3
<1>3. ASSUME NEW r \in Requests, Record(r)
      PROVE  Cardinality(Counted(lane)') + Cardinality(Recording(lane)')
               <= MaxTasksPerLane + Threads - 1
  <2>1. Recording(lane)' = Recording(lane) \ {r}
    BY <1>3 DEF Record, Recording, DashboardTypeOK
  <2>2. CASE Counted(lane)' \subseteq Counted(lane)
    BY <2>1, <2>2, <1>0
  <2>3. CASE ~ (Counted(lane)' \subseteq Counted(lane))
    <3>1. r \in lane /\ Counted(lane)' = Counted(lane) \cup {r}
      BY <2>3, <1>3 DEF Record, Counted
    <3>2. r \in Recording(lane)
      BY <3>1, <1>3 DEF Record, Recording
    <3>3. Cardinality(Recording(lane)') = Cardinality(Recording(lane)) - 1
      BY <2>1, <3>2, <1>a, FiniteSubset, FS_RemoveElement
    <3>4. Cardinality(Counted(lane)') <= Cardinality(Counted(lane)) + 1
      BY <3>1, <1>a, FiniteSubset, FS_AddElement
    <3> QED
      BY <3>3, <3>4, <1>b, <1>c, DashboardAssumption
  <2> QED
    BY <2>2, <2>3
<1>4. ASSUME NEW r \in Requests, Deliver(r) \/ DayPasses(r) \/ Take(r)
      PROVE  Counted(lane)' \subseteq Counted(lane) /\ Recording(lane)' \subseteq Recording(lane)
  BY <1>4 DEF Deliver, DayPasses, Take, Counted, Recording
<1>5. ASSUME UNCHANGED dashboardVars
      PROVE  Counted(lane)' \subseteq Counted(lane) /\ Recording(lane)' \subseteq Recording(lane)
  BY <1>5 DEF dashboardVars, Counted, Recording
<1> QED
  BY <1>0, <1>1, <1>2, <1>3, <1>4, <1>5 DEF DashboardNext

(* The inductive invariant of admission.                                   *)
LEMMA AdmissionInvariant == DashboardSpec => []AdmissionInv
<1>1. DashboardInit => AdmissionInv
  <2> SUFFICES ASSUME DashboardInit PROVE AdmissionInv
    OBVIOUS
  <2>1. DashboardTypeOK
    BY DEF DashboardInit, DashboardTypeOK, Stages
  <2>2. Running = {} /\ \A lane \in Lanes : Counted(lane) = {} /\ Recording(lane) = {}
    BY LanesPartition DEF DashboardInit, Running, Counted, Recording
  <2>3. Cardinality({}) = 0
    BY FS_EmptySet
  <2>4. ThreadsBounded
    BY <2>2, <2>3, DashboardAssumption DEF ThreadsBounded
  <2>5. CommittedBounded
    BY <2>2, <2>3, DashboardAssumption DEF CommittedBounded
  <2> QED
    BY <2>1, <2>4, <2>5 DEF AdmissionInv
<1>2. AdmissionInv /\ [DashboardNext]_dashboardVars => AdmissionInv'
  BY DashboardTypeStep, ThreadsStep, CommittedStep DEF AdmissionInv
<1> QED
  BY <1>1, <1>2, PTL DEF DashboardSpec

(* daily_lane_task_count and record_queued_task are two transactions: a    *)
(* lane exceeds its budget by at most one task per further handler.        *)
THEOREM LaneOvershootBounded == DashboardSpec => []OvershootBounded
<1>1. AdmissionInv => OvershootBounded
  <2> SUFFICES ASSUME AdmissionInv, NEW lane \in Lanes
               PROVE  Cardinality((recent \ Direct) \cap lane) <= MaxTasksPerLane + Threads - 1
    BY DEF OvershootBounded
  <2>1. Counted(lane) \in SUBSET Requests /\ Recording(lane) \in SUBSET Requests
    BY LanesPartition DEF Counted, Recording
  <2>2. Cardinality(Counted(lane)) \in Nat /\ Cardinality(Recording(lane)) \in Nat
    BY <2>1, FiniteSubset
  <2> QED
    BY <2>2, DashboardAssumption DEF AdmissionInv, CommittedBounded, Counted
<1> QED
  BY <1>1, AdmissionInvariant, PTL
=============================================================================
