SPECIFICATION Spec
CONSTANTS
  paper = paper
  article = article
  Preprints = {paper}
  Articles = {article}
  MaxVersion = 2
  MaxBytes = 2
  Licensed <- MCLicensed
  Priority <- MCPriority
  QueueLimit = 2
  Terminals = {t1}
  MaxScripts = 4
  PageCount = 3
  DiagramPages = {1, 3}
INVARIANTS
  AssembledIsWhole
  DocumentIsLicensed
  PausedStoredNothing
  UploadsOfResultsDeleted
  CardsMatchReceipt
PROPERTIES
  ScriptsEnd
CHECK_DEADLOCK FALSE
