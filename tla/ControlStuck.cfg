SPECIFICATION FairSpec
CONSTANTS
  Tasks = {t1}
  Executions = {e1, e2}
  NoTask = NoTask
  NoExecution = NoExecution
  Workers = {w1, w2}
  NoWorker = NoWorker
  Generated = {}
  Direct = {}
  Smoke = {}
  Unsupported = {}
  Nameless = {}
  Misnamed = {}
  Malformed = {}
  NoMessage = NoMessage
  MaxCrashes = 1
  MaxFaults = 0
  MaxCopies = 2
  Stalls = FALSE
PROPERTIES
  EveryTaskSettles
