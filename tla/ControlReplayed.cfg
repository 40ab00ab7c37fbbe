SPECIFICATION Spec
CONSTANTS
  Tasks = {t1}
  Executions = {e1, e2, e3}
  NoTask = NoTask
  NoExecution = NoExecution
  Workers = {w1}
  NoWorker = NoWorker
  Generated = {}
  Direct = {}
  Smoke = {}
  Unsupported = {}
  Nameless = {}
  Misnamed = {}
  Malformed = {}
  NoMessage = NoMessage
  MaxCrashes = 2
  MaxFaults = 0
  MaxCopies = 2
  Stalls = FALSE
INVARIANTS
  ProviderCalledOnce
