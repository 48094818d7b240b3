SPECIFICATION Spec
CONSTANTS
  t1 = t1
  o1 = o1
  o2 = o2
  p1 = p1
  p2 = p2
  c1 = c1
  c2 = c2
  host = host
  None = None
  JobTx = {t1}
  Outpoint = {o1}
  JobOut = {o1}
  ProofTx = {p1, p2}
  TxOf <- OneOutput
  Spends <- DoubleSpend
  Call = {c1, c2}
  Process = {host}
  Home <- OneHost
  Entry <- AllEntries
  UniqueJobs = FALSE
  MayFail = TRUE
  MayCrash = TRUE
INVARIANTS
  TypeOK
  ProofsMatchJobs
  EventsFollowTheChain
  ReturnedProofClosesJob
  DuplicatesBounded
PROPERTIES
  SavesKeepWhatWasSaved
  ImplementsLedger
