SPECIFICATION FairSpec
CONSTANTS
  Tasks = {t1, t2}
  Executions = {e1, e2, e3, e4, e5, e6}
  NoTask = NoTask
  NoExecution = NoExecution
  Workers = {w1}
  NoWorker = NoWorker
  Generated = {}
  Direct = {t2}
  Smoke = {t2}
  Unsupported = {}
  Nameless = {}
  Misnamed = {}
  Malformed = {}
  NoMessage = NoMessage
  MaxCrashes = 2
  MaxFaults = 1
  MaxCopies = 2
  Stalls = FALSE
INVARIANTS
  NoDeliveryLost
  SuccessCompletesAttempt
  OneFailureOneCall
PROPERTIES
  EveryTaskSettles
  OutboxDrains
