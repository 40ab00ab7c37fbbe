SPECIFICATION Spec
CONSTANTS
  Tasks = {t1, g1}
  Executions = {e1, e2, e3}
  NoTask = NoTask
  NoExecution = NoExecution
  Workers = {w1, w2}
  NoWorker = NoWorker
  Generated = {g1}
  Direct = {}
  Smoke = {}
  Unsupported = {g1}
  Nameless = {n1}
  Misnamed = {b1}
  Malformed = {m1}
  NoMessage = NoMessage
  MaxCrashes = 1
  MaxFaults = 0
  MaxCopies = 2
  Stalls = FALSE
SYMMETRY WorkerSymmetry
INVARIANTS
  SingleExecutor
  InvalidIsKept
  NoCallInDoubt
  NoFailureOneCall
