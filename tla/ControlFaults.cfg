SPECIFICATION WatchSpec
CONSTANTS
  Tasks = {t1}
  Executions = {e1, e2}
  NoTask = NoTask
  NoExecution = NoExecution
  Workers = {w1, w2}
  NoWorker = NoWorker
  Generated = {}
  Direct = {}
  Smoke = {}
  Unsupported = {}
  Nameless = {}
  Misnamed = {}
  Malformed = {}
  NoMessage = NoMessage
  MaxCrashes = 1
  MaxFaults = 1
  MaxCopies = 2
  Stalls = TRUE
SYMMETRY WorkerSymmetry
INVARIANTS
  TypeOK
  CallIsOnRecord
  SuccessWasAnswered
  DeliveredWasPublished
  RowsAgree
  ReceiptBacksResult
  SuccessClosesAttempt
PROPERTIES
  SettledIsFinal
  AuditIsAppendOnly
  ImplementsOutcome
  LastCopyOutlivesWork
  ReaperSparesDelivered
